---- MODULE Spec2Model ----
(***************************************************************************)
(* git-cam: the commit run of main() (src/git_cam/main.py) together with   *)
(* the LLM client wrapper call_anthropic_with_retry, and, each under a     *)
(* specification of its own, get_filtered_diff, the history limit in git   *)
(* config with the prompts that use it (src/git_cam/utils.py) and          *)
(* get_file_batch (src/git_cam/recheck.py).                                *)
(*                                                                         *)
(* Text is modelled as a sequence of one-character strings, so that        *)
(* str.strip, str.lower, str.endswith, "x in s" and str.split(marker, 1)   *)
(* are computed, not assumed.                                              *)
(***************************************************************************)
EXTENDS Integers, Sequences, FiniteSets, TLC

(***************************************************************************)
(* Bounds of the model.                                                    *)
(***************************************************************************)
\* generate_commit_message is called at most this many times in one run
MaxGenCalls == 2

(***************************************************************************)
(* Python string primitives.                                               *)
(***************************************************************************)
UpperCase == <<"A","B","C","D","E","F","G","H","I","J","K","L","M",
               "N","O","P","Q","R","S","T","U","V","W","X","Y","Z">>

LowerCase == <<"a","b","c","d","e","f","g","h","i","j","k","l","m",
               "n","o","p","q","r","s","t","u","v","w","x","y","z">>

\* the characters str.strip() removes
Whitespace == {" ", "\t", "\n", "\r", "\f"}

LowerChar(c) ==
  IF \E i \in 1..Len(UpperCase) : UpperCase[i] = c
    THEN LowerCase[CHOOSE i \in 1..Len(UpperCase) : UpperCase[i] = c]
    ELSE c

\* str.lower()
Lower(s) == [i \in 1..Len(s) |-> LowerChar(s[i])]

RECURSIVE LStrip(_)
LStrip(s) ==
  IF s # <<>> /\ Head(s) \in Whitespace THEN LStrip(Tail(s)) ELSE s

RECURSIVE RStrip(_)
RStrip(s) ==
  IF s # <<>> /\ s[Len(s)] \in Whitespace
    THEN RStrip(SubSeq(s, 1, Len(s) - 1))
    ELSE s

\* str.strip()
Strip(s) == RStrip(LStrip(s))

\* s.endswith(suffix)
EndsWith(s, suffix) ==
  /\ Len(suffix) <= Len(s)
  /\ SubSeq(s, Len(s) - Len(suffix) + 1, Len(s)) = suffix

\* the positions at which sub occurs in s
Occurrences(sub, s) ==
  {i \in 1..(Len(s) - Len(sub) + 1) : SubSeq(s, i, i + Len(sub) - 1) = sub}

\* sub in s
Contains(sub, s) == Occurrences(sub, s) # {}

Min(S) == CHOOSE x \in S : \A y \in S : x <= y

\* len(s.split(marker, 1)) > 1, i.e. s.split(marker, 1)[1] does not raise
HasMarker(marker, s) == Contains(marker, s)

\* s.split(marker, 1)[1]: everything after the first occurrence of marker
AfterMarker(marker, s) ==
  SubSeq(s, Min(Occurrences(marker, s)) + Len(marker), Len(s))

(***************************************************************************)
(* Text constants of the program.                                          *)
(***************************************************************************)
STOP_COMMIT == <<"S","T","O","P","_","C","O","M","M","I","T">>

NOTICE == <<"N","O","T","I","C","E">>

OK == <<"O","K">>

ReviewMarker == <<"r","e","v","i","e","w",":">>

MessageMarker == <<"m","e","s","s","a","g","e",":">>

\* the answers accepted as "yes": ["y", "yes"]
YesAnswers == { <<"y">>, <<"y","e","s">> }

\* the answers should_run_hooks accepts as "yes": ["", "y", "yes"]
DefaultYesAnswers == { <<>>, <<"y">>, <<"y","e","s">> }

\* variant: the last two delays exchanged
retry_delays_Swapped == <<5, 60, 10>>

\* retry_delays = [5, 10, 60]
retry_delays == <<5, 10, 60>>

\* the hook names of check_git_hooks that the model distinguishes
HookNames == {"pre-commit"}

\* the hooks that git commit runs before creating the commit unless it is
\* given --no-verify
VerifyHooks == {"pre-commit"}

(***************************************************************************)
(* hook_decision["reason"] / hook_bypass_reason texts.                     *)
(***************************************************************************)
Reason_ForcePreCommit == <<"M","a","n","u","a","l"," ","p","r","e","-","c","o","m","m","i","t"," ","c","h","e","c","k"," ","(","-","-","p","r","e","-","c","o","m","m","i","t"," ","f","l","a","g",")">>

Reason_AutoPreCommit == <<"A","u","t","o","-","c","o","m","m","i","t"," ","m","o","d","e"," ","w","i","t","h"," ","p","r","e","-","c","o","m","m","i","t">>

Reason_AutoNative == <<"A","u","t","o","-","c","o","m","m","i","t"," ","m","o","d","e"," ","w","i","t","h"," ","n","a","t","i","v","e"," ","h","o","o","k","s">>

Reason_AutoNoHooks == <<"A","u","t","o","-","c","o","m","m","i","t"," ","m","o","d","e",","," ","n","o"," ","h","o","o","k","s">>

Reason_NoHooks == <<"N","o"," ","h","o","o","k","s"," ","c","o","n","f","i","g","u","r","e","d">>

Reason_NotInstalled == <<"P","r","e","-","c","o","m","m","i","t"," ","n","o","t"," ","i","n","s","t","a","l","l","e","d">>

Reason_Running == <<"R","u","n","n","i","n","g"," ","p","r","e","-","c","o","m","m","i","t"," ","h","o","o","k","s">>

Reason_UserSkipped == <<"U","s","e","r"," ","s","k","i","p","p","e","d"," ","p","r","e","-","c","o","m","m","i","t"," ","h","o","o","k","s">>

Reason_UsingNative == <<"U","s","i","n","g"," ","n","a","t","i","v","e"," ","g","i","t"," ","h","o","o","k","s">>

Reason_BypassNative == <<"U","s","e","r"," ","c","h","o","s","e"," ","t","o"," ","b","y","p","a","s","s"," ","n","a","t","i","v","e"," ","h","o","o","k","s">>

Reason_ForceCommit == <<"U","s","e","d"," ","-","-","f","o","r","c","e","-","c","o","m","m","i","t"," ","f","l","a","g">>

Reason_AutoFailures == <<"A","u","t","o","-","c","o","m","m","i","t"," ","m","o","d","e"," ","w","i","t","h"," ","h","o","o","k"," ","f","a","i","l","u","r","e","s">>

Reason_AutoPassed == <<"A","u","t","o","-","c","o","m","m","i","t"," ","m","o","d","e"," ","(","h","o","o","k","s"," ","p","a","s","s","e","d",")">>

Reason_ManualPassed == <<"M","a","n","u","a","l"," ","p","r","e","-","c","o","m","m","i","t"," ","c","h","e","c","k"," ","p","a","s","s","e","d">>

(***************************************************************************)
(* Inputs of a run, drawn from small sets.                                 *)
(***************************************************************************)
\* what the user may type at a y/N prompt
YesNoTexts ==
  { <<>>,
    <<"y">>,
    <<"Y">>,
    <<" ","y","e","s"," ">>,
    <<"Y","E","S","\t">>,
    <<"n">>,
    <<"y","e","s","!">>,
    <<"n","o">> }

\* what the user may type at a Y/n prompt of should_run_hooks
HookPromptTexts ==
  { <<>>,
    <<"y">>,
    <<" ","Y","e","s">>,
    <<"n">>,
    <<"l","a","t","e","r">> }

\* what the user may type at a free-text prompt (context, bypass reason)
ContextTexts ==
  { <<>>,
    <<" ","h","o","t","f","i","x"," ">> }

\* what the user may type at the 'proceed with generating a commit message?' prompt
ReviewPromptTexts ==
  { <<>>,
    <<"n">>,
    <<" ","N">>,
    <<"y">>,
    <<"Y"," ">>,
    <<"w","i","p">> }

\* what the user may type at the accept/cancel/regenerate prompt
ChoiceTexts ==
  { <<>>,
    <<"a">>,
    <<"A">>,
    <<" ","a">>,
    <<"c">>,
    <<"r">>,
    <<"e">> }

\* texts the model may return to the review prompt
ReviewResponses ==
  { <<"r","e","v","i","e","w",":","f","i","n","e"," ","O","K">>,
    <<"r","e","v","i","e","w",":"," ","l","e","a","k"," ","S","T","O","P","_","C","O","M","M","I","T","\n">>,
    <<"r","e","v","i","e","w",":","S","T","O","P","_","C","O","M","M","I","T","?"," ","n","o","."," ","O","K">>,
    <<"r","e","v","i","e","w",":","n","i","t"," ","N","O","T","I","C","E"," ">>,
    <<"r","e","v","i","e","w",":","h","m">>,
    <<"l","o","o","k","s"," ","O","K">> }

\* texts the model may return to the commit-message prompt
MessageResponses ==
  { <<"m","e","s","s","a","g","e",":","f","i","x"," ","a">>,
    <<"m","e","s","s","a","g","e",":"," ","a","d","d"," ","b","\n">>,
    <<"f","i","x"," ","a">> }

\* str(e) of the exceptions client.messages.create may raise
ApiErrors ==
  { <<"E","r","r","o","r"," ","c","o","d","e",":"," ","5","2","9">>,
    <<"O","v","e","r","l","o","a","d","e","d">>,
    <<"E","r","r","o","r"," ","c","o","d","e",":"," ","4","0","1">>,
    <<"t","i","m","e"," ","o","u","t">> }

\* results of get_filtered_diff (empty: nothing staged)
Diffs ==
  { <<>>,
    <<"+","a">> }

\* an input() call returns the typed line or raises
KeyboardInterrupt == [exc |-> "KeyboardInterrupt", text |-> <<>>]

EOFError == [exc |-> "EOFError", text |-> <<>>]

Typed(s) == [exc |-> "none", text |-> s]

\* no input() call was made
Unasked == [exc |-> "unasked", text |-> <<>>]

InputOutcomes(texts) == {Typed(s) : s \in texts} \cup {KeyboardInterrupt, EOFError}

\* client.messages.create returns a response text or raises an exception e
ApiOutcomes(responses) ==
  {[ok |-> TRUE, text |-> t] : t \in responses}
    \cup {[ok |-> FALSE, text |-> e] : e \in ApiErrors}

\* the files the run finds in the repository: executable hooks in
\* .git/hooks, .pre-commit-config.yaml, the pre-commit command
Repositories ==
  [native_hooks : SUBSET HookNames, precommit_config : BOOLEAN,
   precommit_cmd : BOOLEAN]

\* the command-line switches of a commit run
Arguments ==
  [all : BOOLEAN, skip_pre_commit : BOOLEAN, pre_commit : BOOLEAN,
   force_commit : BOOLEAN, verbose : BOOLEAN]

(***************************************************************************)
(* Pure functions of the program.                                          *)
(***************************************************************************)
\* variant: STOP_COMMIT anywhere in the review counts
has_critical_issues_Anywhere(r) == Contains(STOP_COMMIT, r)

\* review.strip().endswith("STOP_COMMIT")
has_critical_issues(r) == EndsWith(Strip(r), STOP_COMMIT)

\* review.strip().endswith("NOTICE")
EndsWithNotice(r) == EndsWith(Strip(r), NOTICE)

\* the dictionary check_git_hooks returns
check_git_hooks(repo) ==
  [has_native_hooks |-> Cardinality(repo.native_hooks) > 0,
   has_precommit |-> repo.precommit_config,
   native_hooks |-> repo.native_hooks,
   precommit_available |-> repo.precommit_cmd]

\* is_retryable of call_anthropic_with_retry: the substrings of str(e) that
\* make an error retryable, some searched in error_str.lower()
is_retryable(error_str) ==
  \/ Contains(<<"5","2","9">>, error_str)
  \/ Contains(<<"o","v","e","r","l","o","a","d","e","d">>, Lower(error_str))
  \/ Contains(<<"r","a","t","e","_","l","i","m","i","t">>, Lower(error_str))
  \/ Contains(<<"t","i","m","e","o","u","t">>, Lower(error_str))
  \/ Contains(<<"5","0","2">>, error_str)
  \/ Contains(<<"5","0","3">>, error_str)
  \/ Contains(<<"5","0","4">>, error_str)

\* variant: range(len(retry_delays)), one attempt fewer
Attempts_OneFewer == 0..(Len(retry_delays) - 1)

\* the attempts of the retry loop: range(len(retry_delays) + 1)
Attempts == 0..Len(retry_delays)

\* variant: off by one, the last retry is never made
MustRaise_Early(error_str, att) ==
  ~is_retryable(error_str) \/ att >= Len(retry_delays) - 1

\* "not is_retryable or attempt >= len(retry_delays)": the exception is
\* re-raised instead of retried
MustRaise(error_str, att) ==
  ~is_retryable(error_str) \/ att >= Len(retry_delays)

\* variant: Enter alone proceeds, as at a (Y/n) prompt
AutoProceeds_DefaultYes(line) == Lower(Strip(line)) \in DefaultYesAnswers

\* proceed_choice = input().strip().lower();
\* proceed_choice not in ["y", "yes"] is false (auto-commit prompts)
AutoProceeds(line) == Lower(Strip(line)) \in YesAnswers

\* variant: Enter alone proceeds, as at a (Y/n) prompt
CriticalProceeds_DefaultYes(line) == Lower(Strip(line)) \in DefaultYesAnswers

\* user_input = input().strip(); user_input.lower() not in ["y", "yes"] is
\* false (interactive critical-issues prompt)
CriticalProceeds(line) == Lower(Strip(line)) \in YesAnswers

\* variant: an empty answer counts as yes, as at the "Run them first?" prompt
ForceProceeds_EmptyToo(line) == Lower(Strip(line)) \in DefaultYesAnswers

\* force_choice = input().strip().lower(); force_choice in ["y", "yes"]
ForceProceeds(line) == Lower(Strip(line)) \in YesAnswers

\* response = input().strip().lower(); response in ["", "y", "yes"]
HooksAgreed(line) == Lower(Strip(line)) \in DefaultYesAnswers

\* user_input.lower() == "n" at the normal review prompt
ReviewCancelled(line) == Lower(Strip(line)) = <<"n">>

\* user_context = user_input if user_input and user_input.lower() != "y" else ""
ReviewContext(line) ==
  IF Strip(line) # <<>> /\ Lower(Strip(line)) # <<"y">> THEN Strip(line) ELSE <<>>

\* variant: Enter alone is not an accept
IsAccept_OnlyA(line) == Lower(line) = <<"a">>

\* choice = input().lower(); choice == "a" or choice == ""
IsAccept(line) == Lower(line) = <<"a">> \/ Lower(line) = <<>>

\* variant: "e" leaves the loop as "c" does
IsCancel_AlsoE(line) == Lower(line) \in {<<"c">>, <<"e">>}

\* choice == "c"
IsCancel(line) == Lower(line) = <<"c">>

\* should_run_hooks asks only when pre-commit is configured and installed,
\* or else when native hooks exist; the name of the prompt, "none" if no prompt
HooksPrompt(hook_info) ==
  IF ~hook_info.has_native_hooks /\ ~hook_info.has_precommit THEN "none"
  ELSE IF hook_info.has_precommit
    THEN IF ~hook_info.precommit_available THEN "none" ELSE "run_precommit"
  ELSE "native_hooks"

\* the dictionary should_run_hooks returns, line being the user's answer
should_run_hooks(hook_info, line) ==
  IF ~hook_info.has_native_hooks /\ ~hook_info.has_precommit
    THEN [run_precommit |-> FALSE, bypass_native |-> FALSE, reason |-> Reason_NoHooks]
  ELSE IF hook_info.has_precommit
    THEN IF ~hook_info.precommit_available
           THEN [run_precommit |-> FALSE, bypass_native |-> TRUE,
                 reason |-> Reason_NotInstalled]
         ELSE IF HooksAgreed(line)
           THEN [run_precommit |-> TRUE, bypass_native |-> TRUE,
                 reason |-> Reason_Running]
         ELSE [run_precommit |-> FALSE, bypass_native |-> TRUE,
               reason |-> Reason_UserSkipped]
  ELSE IF HooksAgreed(line)
    THEN [run_precommit |-> FALSE, bypass_native |-> FALSE,
          reason |-> Reason_UsingNative]
  ELSE [run_precommit |-> FALSE, bypass_native |-> TRUE,
        reason |-> Reason_BypassNative]

\* variant: --pre-commit only bypasses the native hooks
ForcedHookDecision_NoRun ==
  [run_precommit |-> FALSE, bypass_native |-> TRUE, reason |-> Reason_ForcePreCommit]

\* hook_decision of main with --pre-commit
ForcedHookDecision ==
  [run_precommit |-> TRUE, bypass_native |-> TRUE, reason |-> Reason_ForcePreCommit]

\* hook_decision of main in auto-commit mode
AutoHookDecisionOf(hook_info) ==
  IF hook_info.has_precommit /\ hook_info.precommit_available
    THEN [run_precommit |-> TRUE, bypass_native |-> TRUE,
          reason |-> Reason_AutoPreCommit]
  ELSE IF hook_info.has_native_hooks
    THEN [run_precommit |-> FALSE, bypass_native |-> FALSE,
          reason |-> Reason_AutoNative]
  ELSE [run_precommit |-> FALSE, bypass_native |-> FALSE,
        reason |-> Reason_AutoNoHooks]

\* variant: a failed first run is re-staged and repeated in every mode
run_precommit_with_auto_restage_Always(is_auto_mode, first, second) ==
  IF ~first
    THEN [passed |-> second,
          log |-> <<"fail", "add", IF second THEN "pass" ELSE "fail">>]
    ELSE [passed |-> first, log |-> <<"pass">>]

\* run_precommit_with_auto_restage: first and second are the results of the
\* first and of the second run_precommit_hooks call; log lists the hook runs
\* and the git add -A in between
run_precommit_with_auto_restage(is_auto_mode, first, second) ==
  IF ~first /\ is_auto_mode
    THEN [passed |-> second,
          log |-> <<"fail", "add", IF second THEN "pass" ELSE "fail">>]
    ELSE [passed |-> first, log |-> <<IF first THEN "pass" ELSE "fail">>]

\* run_precommit_hooks returns False when the pre-commit command cannot be
\* started (the exception is caught) and the hooks' verdict otherwise
HookRunResults(repository) ==
  IF repository.precommit_cmd THEN BOOLEAN ELSE {FALSE}

(***************************************************************************)
(* State.                                                                  *)
(***************************************************************************)
VARIABLES
  args,               \* parsed command line
  repo,               \* hooks and pre-commit configuration of the repository
  pc,                 \* position of main
  exit_code,          \* exit status of the process, -1 while it runs
  outcome,            \* "running", "committed", "cancelled" or "error"
  diff,               \* main: diff
  hook_decision,      \* main: hook_decision
  skip_git_hooks,     \* main: skip_git_hooks
  hook_bypass_reason, \* main: hook_bypass_reason
  hooks_passed,       \* main: hooks_passed
  review,             \* main: review
  user_context,       \* main: user_context
  should_continue,    \* main: should_continue
  message,            \* main: message
  choice,             \* main: choice, from the prompt to the next loop iteration
  api_op,             \* call_anthropic_with_retry: "review" or "message"
  attempt,            \* call_anthropic_with_retry: attempt
  sleeps,             \* the time.sleep delays of the current call, in order
  last_error,         \* str(e) of the last failed attempt of the current call
  raised,             \* the exception that reached main, <<>> if none
  api_attempts,       \* client.messages.create calls of the current call
  n_stage,            \* git add -A runs
  n_check_hooks,      \* check_git_hooks calls
  prompts,            \* the prompts at which input() was called
  hook_log,           \* hook runs and re-staging of the hook phase
  review_calls,       \* perform_code_review calls
  review_ok,          \* perform_code_review calls that returned
  gen_calls,          \* the arguments of each generate_commit_message call
  gen_ok,             \* generate_commit_message calls that returned
  commits,            \* the git commit commands run
  answer,             \* what input() gave at the last prompt, until the next LLM call
  context_line        \* what input() gave at the follow-up prompt, if it was shown

flowV == <<pc, exit_code, outcome>>

inputV == <<args, repo>>

hookV == <<hook_decision, skip_git_hooks, hook_bypass_reason, hooks_passed>>

reviewV == <<review, user_context, should_continue>>

msgV == <<message, choice>>

apiV == <<api_op, attempt, sleeps, last_error, raised, api_attempts>>

obsV == <<n_stage, n_check_hooks, prompts, hook_log, review_calls, review_ok,
          gen_calls, gen_ok, commits>>

promptV == <<answer, context_line>>

\* get_filtered_diff (src/git_cam/utils.py)
VARIABLES
  status,             \* get_filtered_diff: the lines of "git status --porcelain"
  line_no,            \* lines of status the parse loop has handled
  modified_files,     \* get_filtered_diff: modified_files
  new_files,          \* get_filtered_diff: new_files
  moved_files,        \* get_filtered_diff: moved_files
  deleted_files,      \* get_filtered_diff: deleted_files
  diff_parts,         \* get_filtered_diff: diff_parts
  new_file_parts,     \* get_filtered_diff: new_file_parts
  fd_pc,              \* position of get_filtered_diff
  fd_i,               \* files handled by the current "for file in ..." loop
  file_reads,         \* what getsize, git show and git diff --cached gave, in order
  filtered_diff       \* the value get_filtered_diff returned

diffV == <<status, line_no, modified_files, new_files, moved_files, deleted_files,
           diff_parts, new_file_parts, fd_pc, fd_i, file_reads, filtered_diff>>

\* the history limit in git config (src/git_cam/utils.py)
VARIABLES
  historylimit,       \* cam.historylimit of the global git config
  config_call,        \* the call just made, if it can write it, and its result
  git_log,            \* the git log commands run for the prompt just built
  sent_prompt         \* the prompt just built for the API, if any

configV == <<historylimit, config_call, git_log, sent_prompt>>

\* get_file_batch (src/git_cam/recheck.py)
VARIABLES
  files,              \* get_file_batch: files
  fb_i,               \* entries of files the loop has handled
  batches,            \* get_file_batch: batches
  current_batch,      \* get_file_batch: current_batch
  current_size,       \* get_file_batch: current_size
  fb_pc               \* position of get_file_batch

batchV == <<files, fb_i, batches, current_batch, current_size, fb_pc>>

\* analyze_repository (src/git_cam/recheck.py)
VARIABLES
  total_batches,        \* analyze_repository: total_batches
  batch_num,            \* batches the loop has handled
  all_recommendations,  \* len(all_recommendations)
  accumulated_insights, \* analyze_repository: accumulated_insights
  summaries,            \* new_insights of every batch that was summarised
  ar_pc                 \* position of analyze_repository

insightV == <<total_batches, batch_num, all_recommendations, accumulated_insights,
              summaries, ar_pc>>

\* the variables of the library functions, which a commit run leaves alone
libV == <<diffV, configV, batchV, insightV>>

vars == <<flowV, inputV, diff, hookV, reviewV, msgV, apiV, obsV, promptV, libV>>

NoDecision == [run_precommit |-> FALSE, bypass_native |-> FALSE, reason |-> <<>>]

\* get_filtered_diff has not been called
DiffIdle ==
  /\ status = <<>>
  /\ line_no = 0
  /\ modified_files = <<>>
  /\ new_files = <<>>
  /\ moved_files = <<>>
  /\ deleted_files = <<>>
  /\ diff_parts = <<>>
  /\ new_file_parts = <<>>
  /\ fd_pc = "idle"
  /\ fd_i = 0
  /\ file_reads = <<>>
  /\ filtered_diff = [parts |-> <<>>, size |-> 0]

\* neither set_history_limit nor setup_api_key is called
ConfigIdle ==
  /\ historylimit = [set |-> FALSE, value |-> <<>>]
  /\ config_call = [op |-> "none", input |-> Unasked, returned |-> FALSE,
                    before |-> [set |-> FALSE, value |-> <<>>]]
  /\ git_log = <<>>
  /\ sent_prompt =
       [op |-> "none", history_context |-> <<>>, text |-> <<>>,
        env |-> [recent |-> [returncode |-> 0, stdout |-> <<>>], staged_files |-> <<>>,
                 file |-> [returncode |-> 0, stdout |-> <<>>]]]

\* get_file_batch has not been called
BatchIdle ==
  /\ files = <<>>
  /\ fb_i = 0
  /\ batches = <<>>
  /\ current_batch = <<>>
  /\ current_size = 0
  /\ fb_pc = "idle"

\* analyze_repository has not been called
InsightIdle ==
  /\ total_batches = 0
  /\ batch_num = 0
  /\ all_recommendations = 0
  /\ accumulated_insights = <<>>
  /\ summaries = <<>>
  /\ ar_pc = "idle"

LibIdle == DiffIdle /\ ConfigIdle /\ BatchIdle /\ InsightIdle

\* the locals of main before its first statement
MainStart ==
  /\ pc = "start"
  /\ exit_code = -1
  /\ outcome = "running"
  /\ diff = <<>>
  /\ hook_decision = NoDecision
  /\ skip_git_hooks = FALSE
  /\ hook_bypass_reason = <<>>
  /\ hooks_passed = FALSE
  /\ review = <<>>
  /\ user_context = <<>>
  /\ should_continue = FALSE
  /\ message = <<>>
  /\ choice = <<>>
  /\ api_op = "none"
  /\ attempt = 0
  /\ sleeps = <<>>
  /\ last_error = <<>>
  /\ raised = <<>>
  /\ api_attempts = 0
  /\ n_stage = 0
  /\ n_check_hooks = 0
  /\ prompts = {}
  /\ hook_log = <<>>
  /\ review_calls = 0
  /\ review_ok = 0
  /\ gen_calls = <<>>
  /\ gen_ok = 0
  /\ commits = <<>>
  /\ answer = Unasked
  /\ context_line = Unasked

\* no commit run: the library functions are called on their own
MainIdle ==
  /\ args = [all |-> FALSE, skip_pre_commit |-> FALSE, pre_commit |-> FALSE,
             force_commit |-> FALSE, verbose |-> FALSE]
  /\ repo = [native_hooks |-> {}, precommit_config |-> FALSE, precommit_cmd |-> FALSE]
  /\ MainStart

mainV == <<flowV, inputV, diff, hookV, reviewV, msgV, apiV, obsV, promptV>>

Init ==
  /\ args \in Arguments
  /\ repo \in Repositories
  /\ MainStart
  /\ LibIdle

\* sys.exit(code), os._exit(code), a return from main, or an uncaught exception
Exit(code, what) ==
  /\ pc' = "done"
  /\ exit_code' = code
  /\ outcome' = what

(***************************************************************************)
(* main, up to the code review.                                            *)
(***************************************************************************)
\* the checks before the commit run: git repository, API key, API model
Preflight ==
  /\ pc = "start"
  /\ \E is_repo \in BOOLEAN, api_key \in BOOLEAN, api_model \in BOOLEAN :
       IF is_repo /\ api_key /\ api_model
         THEN pc' = "stage" /\ UNCHANGED <<exit_code, outcome>>
         ELSE Exit(1, "error")
  /\ UNCHANGED <<inputV, libV, diff, hookV, reviewV, msgV, apiV, obsV>>
  /\ UNCHANGED promptV

\* "if args.all: stage_all_files()", then "diff = get_filtered_diff()"
GatherDiff ==
  /\ pc = "stage"
  /\ n_stage' = IF args.all THEN n_stage + 1 ELSE n_stage
  /\ \E d \in Diffs :
       /\ diff' = d
       /\ IF d = <<>>
            THEN Exit(1, "error")
            ELSE pc' = "hooks" /\ UNCHANGED <<exit_code, outcome>>
  /\ UNCHANGED <<inputV, libV, hookV, reviewV, msgV, apiV, n_check_hooks, prompts,
                 hook_log, review_calls, review_ok, gen_calls, gen_ok, commits>>
  /\ UNCHANGED promptV

\* "if not args.skip_pre_commit" is false: the hook phase is skipped
SkipPreCommit ==
  /\ pc = "hooks"
  /\ args.skip_pre_commit
  /\ pc' = "verbose"
  /\ UNCHANGED <<exit_code, outcome, inputV, libV, diff, hookV, reviewV, msgV, apiV, obsV>>
  /\ UNCHANGED promptV

\* the assignments after the decision: skip_git_hooks, hook_bypass_reason,
\* and the branch on hook_decision["run_precommit"]
Decide(decision) ==
  /\ hook_decision' = decision
  /\ skip_git_hooks' = decision.bypass_native
  /\ hook_bypass_reason' = decision.reason
  /\ pc' = IF decision.run_precommit THEN "run_hooks" ELSE "verbose"
  /\ UNCHANGED <<exit_code, outcome, hooks_passed>>

\* --pre-commit: hooks are run without asking
ForcedPreCommit ==
  /\ pc = "hooks"
  /\ ~args.skip_pre_commit
  /\ args.pre_commit
  /\ Decide(ForcedHookDecision)
  /\ UNCHANGED <<inputV, libV, diff, reviewV, msgV, apiV, obsV>>
  /\ UNCHANGED promptV

\* auto-commit mode: the decision follows from check_git_hooks
AutoHookDecision ==
  /\ pc = "hooks"
  /\ ~args.skip_pre_commit
  /\ ~args.pre_commit
  /\ args.all
  /\ n_check_hooks' = n_check_hooks + 1
  /\ Decide(AutoHookDecisionOf(check_git_hooks(repo)))
  /\ UNCHANGED <<inputV, libV, diff, reviewV, msgV, apiV, n_stage, prompts, hook_log,
                 review_calls, review_ok, gen_calls, gen_ok, commits>>
  /\ UNCHANGED promptV

\* interactive mode: should_run_hooks, which may ask the user
InteractiveHookDecision ==
  /\ pc = "hooks"
  /\ ~args.skip_pre_commit
  /\ ~args.pre_commit
  /\ ~args.all
  /\ n_check_hooks' = n_check_hooks + 1
  /\ LET hook_info == check_git_hooks(repo)
         prompt == HooksPrompt(hook_info)
     IN IF prompt = "none"
          THEN /\ Decide(should_run_hooks(hook_info, <<>>))
               /\ UNCHANGED <<prompts, promptV>>
          ELSE /\ prompts' = prompts \cup {prompt}
               /\ context_line' = Unasked
               /\ \E in \in InputOutcomes(HookPromptTexts) :
                    /\ answer' = in
                    /\ CASE in.exc = "KeyboardInterrupt" ->
                              Exit(0, "cancelled") /\ UNCHANGED hookV
                         [] in.exc = "EOFError" ->
                              Exit(1, "error") /\ UNCHANGED hookV
                         [] OTHER -> Decide(should_run_hooks(hook_info, in.text))
  /\ UNCHANGED <<inputV, libV, diff, reviewV, msgV, apiV, n_stage, hook_log,
                 review_calls, review_ok, gen_calls, gen_ok, commits>>

\* hooks_passed = run_precommit_with_auto_restage(is_auto_mode=args.all)
RunHooks ==
  /\ pc = "run_hooks"
  /\ \E first \in HookRunResults(repo), second \in HookRunResults(repo) :
       LET r == run_precommit_with_auto_restage(args.all, first, second)
       IN /\ hooks_passed' = r.passed
          /\ hook_log' = hook_log \o r.log
          /\ n_stage' = n_stage + Cardinality({i \in 1..Len(r.log) : r.log[i] = "add"})
  /\ pc' = "hooks_result"
  /\ UNCHANGED <<exit_code, outcome, inputV, libV, diff, hook_decision, skip_git_hooks,
                 hook_bypass_reason, reviewV, msgV, apiV, n_check_hooks, prompts,
                 review_calls, review_ok, gen_calls, gen_ok, commits>>
  /\ UNCHANGED promptV

\* the --force-commit branch taken for "Commit cancelled" instead of proceeding
HooksFailedForce_Cancel ==
  /\ pc = "hooks_result"
  /\ ~hooks_passed
  /\ args.force_commit
  /\ Exit(1, "cancelled")
  /\ UNCHANGED <<inputV, libV, diff, hookV, reviewV, msgV, apiV, obsV>>
  /\ UNCHANGED promptV

\* hooks failed, --force-commit
HooksFailedForce ==
  /\ pc = "hooks_result"
  /\ ~hooks_passed
  /\ args.force_commit
  /\ hook_bypass_reason' = Reason_ForceCommit
  /\ pc' = "update_diff"
  /\ UNCHANGED <<exit_code, outcome, inputV, libV, diff, hook_decision, skip_git_hooks,
                 hooks_passed, reviewV, msgV, apiV, obsV>>
  /\ UNCHANGED promptV

\* variant: in auto-commit mode a hook failure cancels the commit
HooksFailedAuto_Cancel ==
  /\ pc = "hooks_result"
  /\ ~hooks_passed
  /\ ~args.force_commit
  /\ args.all
  /\ Exit(1, "cancelled")
  /\ UNCHANGED <<inputV, libV, diff, hookV, reviewV, msgV, apiV, obsV>>
  /\ UNCHANGED promptV

\* hooks failed, auto-commit mode: proceed anyway
HooksFailedAuto ==
  /\ pc = "hooks_result"
  /\ ~hooks_passed
  /\ ~args.force_commit
  /\ args.all
  /\ hook_bypass_reason' = Reason_AutoFailures
  /\ pc' = "update_diff"
  /\ UNCHANGED <<exit_code, outcome, inputV, libV, diff, hook_decision, skip_git_hooks,
                 hooks_passed, reviewV, msgV, apiV, obsV>>
  /\ UNCHANGED promptV

\* hooks failed, interactive mode: "Do you want to commit anyway? (y/N)" and,
\* after a yes, the prompt for the bypass reason
HooksFailedAsk ==
  /\ pc = "hooks_result"
  /\ ~hooks_passed
  /\ ~args.force_commit
  /\ ~args.all
  /\ \E in \in InputOutcomes(YesNoTexts), rin \in InputOutcomes(ContextTexts) :
       /\ answer' = in
       /\ IF in.exc = "none" /\ ForceProceeds(in.text)
         THEN /\ prompts' = prompts \cup {"commit_anyway", "bypass_reason"}
              /\ context_line' = rin
              /\ IF rin.exc = "none"
                   THEN /\ hook_bypass_reason' = Strip(rin.text)
                        /\ pc' = "update_diff"
                        /\ UNCHANGED <<exit_code, outcome>>
                   ELSE \* os._exit(1) on KeyboardInterrupt, uncaught EOFError
                        /\ Exit(1, IF rin.exc = "KeyboardInterrupt"
                                     THEN "cancelled" ELSE "error")
                        /\ UNCHANGED hook_bypass_reason
         ELSE /\ prompts' = prompts \cup {"commit_anyway"}
              /\ context_line' = Unasked
              /\ Exit(1, IF in.exc = "EOFError" THEN "error" ELSE "cancelled")
              /\ UNCHANGED hook_bypass_reason
  /\ UNCHANGED <<inputV, libV, diff, hook_decision, skip_git_hooks, hooks_passed,
                 reviewV, msgV, apiV, n_stage, n_check_hooks, hook_log,
                 review_calls, review_ok, gen_calls, gen_ok, commits>>

\* hooks passed
HooksPassed ==
  /\ pc = "hooks_result"
  /\ hooks_passed
  /\ hook_bypass_reason' = IF args.all THEN Reason_AutoPassed ELSE Reason_ManualPassed
  /\ pc' = "update_diff"
  /\ UNCHANGED <<exit_code, outcome, inputV, libV, diff, hook_decision, skip_git_hooks,
                 hooks_passed, reviewV, msgV, apiV, obsV>>
  /\ UNCHANGED promptV

\* "updated_diff = get_filtered_diff()" after the hooks ran
UpdateDiff ==
  /\ pc = "update_diff"
  /\ \E d \in Diffs :
       IF d = <<>>
         THEN Exit(1, "error") /\ UNCHANGED diff
         ELSE diff' = d /\ pc' = "verbose" /\ UNCHANGED <<exit_code, outcome>>
  /\ UNCHANGED <<inputV, libV, hookV, reviewV, msgV, apiV, obsV>>
  /\ UNCHANGED promptV

\* "if args.verbose": the diff preview and "Press Enter to continue"
VerbosePreview ==
  /\ pc = "verbose"
  /\ IF args.verbose
       THEN /\ prompts' = prompts \cup {"press_enter"}
            /\ context_line' = Unasked
            /\ \E in \in InputOutcomes(ContextTexts) :
                 /\ answer' = in
                 /\ CASE in.exc = "KeyboardInterrupt" -> Exit(0, "cancelled")
                      [] in.exc = "EOFError" -> Exit(1, "error")
                      [] OTHER -> pc' = "review" /\ UNCHANGED <<exit_code, outcome>>
       ELSE /\ pc' = "review"
            /\ UNCHANGED <<exit_code, outcome, prompts, promptV>>
  /\ UNCHANGED <<inputV, libV, diff, hookV, reviewV, msgV, apiV, n_stage, n_check_hooks,
                 hook_log, review_calls, review_ok, gen_calls, gen_ok, commits>>

(***************************************************************************)
(* The LLM client wrapper.                                                 *)
(***************************************************************************)
\* entry of call_anthropic_with_retry
StartCall(op) ==
  /\ api_op' = op
  /\ attempt' = 0
  /\ sleeps' = <<>>
  /\ last_error' = <<>>
  /\ api_attempts' = 0
  /\ pc' = "api"
  /\ answer' = Unasked
  /\ context_line' = Unasked
  /\ UNCHANGED <<exit_code, outcome, raised>>

\* main acts on the result of perform_code_review or generate_commit_message:
\* the record of the finished call_anthropic_with_retry call is dropped
ForgetCall ==
  /\ api_op' = "none"
  /\ attempt' = 0
  /\ sleeps' = <<>>
  /\ api_attempts' = 0
  /\ UNCHANGED <<last_error, raised>>

\* "review = perform_code_review(diff, ...)"
ReviewCall ==
  /\ pc = "review"
  /\ review_calls' = review_calls + 1
  /\ StartCall("review")
  /\ UNCHANGED <<inputV, libV, diff, hookV, reviewV, msgV, n_stage, n_check_hooks,
                 prompts, hook_log, review_ok, gen_calls, gen_ok, commits>>

\* variant: the loop is entered before the review
LoopHead_Review == "review"

\* where main goes on after "continue" or after an unrecognised choice: the
\* head of the "while True" loop, the generate_commit_message call
LoopHead == "generate"

\* "message = generate_commit_message(diff, review, user_context, ...)"
GenerateCall ==
  /\ pc = "generate"
  /\ gen_calls' = Append(gen_calls,
       [diff |-> diff, review_content |-> review, user_context |-> user_context,
        skip_hooks |-> skip_git_hooks, hook_bypass_reason |-> hook_bypass_reason])
  /\ choice' = <<>>
  /\ StartCall("message")
  /\ UNCHANGED <<inputV, libV, diff, hookV, reviewV, message, n_stage, n_check_hooks,
                 prompts, hook_log, review_calls, review_ok, gen_ok, commits>>

\* "raise e" in call_anthropic_with_retry: the exception passes through
\* perform_code_review or generate_commit_message to main, which prints it
\* and calls sys.exit(1)
Raise(e) ==
  /\ raised' = e
  /\ Exit(1, "error")

\* split(marker, 1)[1] raises IndexError when the marker is missing; main
\* prints it and calls sys.exit(1)
RaiseIndexError ==
  /\ Exit(1, "error")
  /\ UNCHANGED raised

\* the response of a successful attempt is returned to perform_code_review,
\* which takes the text after "review:", stripped
ReviewReturned(text) ==
  IF HasMarker(ReviewMarker, text)
    THEN /\ review' = Strip(AfterMarker(ReviewMarker, text))
         /\ review_ok' = review_ok + 1
         /\ pc' = "review_result"
         /\ UNCHANGED <<exit_code, outcome, raised, message, gen_ok>>
    ELSE /\ RaiseIndexError
         /\ UNCHANGED <<review, review_ok, message, gen_ok>>

\* the response of a successful attempt is returned to
\* generate_commit_message, which takes the text after "message:", stripped
MessageReturned(text) ==
  IF HasMarker(MessageMarker, text)
    THEN /\ message' = Strip(AfterMarker(MessageMarker, text))
         /\ gen_ok' = gen_ok + 1
         /\ pc' = IF args.all THEN "auto_commit" ELSE "choice"
         /\ UNCHANGED <<exit_code, outcome, raised, review, review_ok>>
    ELSE /\ RaiseIndexError
         /\ UNCHANGED <<review, review_ok, message, gen_ok>>

\* one iteration of "for attempt in range(len(retry_delays) + 1)"
ApiAttempt ==
  /\ pc = "api"
  /\ attempt \in Attempts
  /\ api_attempts' = api_attempts + 1
  /\ \E o \in ApiOutcomes(IF api_op = "review" THEN ReviewResponses
                                               ELSE MessageResponses) :
       IF o.ok
         THEN /\ IF api_op = "review" THEN ReviewReturned(o.text)
                                      ELSE MessageReturned(o.text)
              /\ last_error' = <<>>
              /\ UNCHANGED <<attempt, sleeps>>
         ELSE /\ last_error' = o.text
              /\ IF MustRaise(o.text, attempt)
                   THEN /\ Raise(o.text)
                        /\ UNCHANGED <<attempt, sleeps>>
                   ELSE /\ sleeps' = Append(sleeps, retry_delays[attempt + 1])
                        /\ attempt' = attempt + 1
                        /\ UNCHANGED <<flowV, raised>>
              /\ UNCHANGED <<review, review_ok, message, gen_ok>>
  /\ UNCHANGED <<inputV, libV, diff, hookV, user_context, should_continue, choice,
                 api_op, n_stage, n_check_hooks, prompts, hook_log, review_calls,
                 gen_calls, commits>>
  /\ UNCHANGED promptV

(***************************************************************************)
(* main, after the code review.                                            *)
(***************************************************************************)
\* handle_critical_issues_in_auto_mode: in answers the proceed prompt, cin
\* the context prompt; exc is the exception that leaves the function
handle_critical_issues_in_auto_mode(in, cin) ==
  IF in.exc = "EOFError"
    THEN [exc |-> "EOFError", should_continue |-> FALSE, user_context |-> <<>>,
          asked |-> {"auto_critical"}]
  ELSE IF in.exc = "KeyboardInterrupt" \/ ~AutoProceeds(in.text)
    THEN [exc |-> "none", should_continue |-> FALSE, user_context |-> <<>>,
          asked |-> {"auto_critical"}]
  ELSE IF cin.exc = "EOFError"
    THEN [exc |-> "EOFError", should_continue |-> FALSE, user_context |-> <<>>,
          asked |-> {"auto_critical", "auto_context"}]
  ELSE IF cin.exc = "KeyboardInterrupt"
    THEN [exc |-> "none", should_continue |-> FALSE, user_context |-> <<>>,
          asked |-> {"auto_critical", "auto_context"}]
  ELSE [exc |-> "none", should_continue |-> TRUE, user_context |-> Strip(cin.text),
        asked |-> {"auto_critical", "auto_context"}]

\* auto-commit mode, has_critical_issues(review)
AutoCritical ==
  /\ pc = "review_result"
  /\ args.all
  /\ has_critical_issues(review)
  /\ \E in \in InputOutcomes(YesNoTexts), cin \in InputOutcomes(ContextTexts) :
       LET r == handle_critical_issues_in_auto_mode(in, cin)
       IN /\ prompts' = prompts \cup r.asked
          /\ answer' = in
          /\ context_line' = IF "auto_context" \in r.asked THEN cin ELSE Unasked
          /\ IF r.exc # "none"
               THEN Exit(1, "error") /\ UNCHANGED <<should_continue, user_context>>
               ELSE \* should_continue, user_context = handle_...(review)
                    /\ should_continue' = r.should_continue
                    /\ user_context' = r.user_context
                    /\ IF ~r.should_continue
                         THEN Exit(1, "cancelled")
                         ELSE pc' = "generate" /\ UNCHANGED <<exit_code, outcome>>
  /\ ForgetCall
  /\ UNCHANGED <<inputV, libV, diff, hookV, review, msgV, n_stage, n_check_hooks,
                 hook_log, review_calls, review_ok, gen_calls, gen_ok, commits>>

\* auto-commit mode, review ends with NOTICE
AutoNotice ==
  /\ pc = "review_result"
  /\ args.all
  /\ ~has_critical_issues(review)
  /\ EndsWithNotice(review)
  /\ \E in \in InputOutcomes(YesNoTexts), cin \in InputOutcomes(ContextTexts) :
       /\ answer' = in
       /\ IF in.exc = "none" /\ AutoProceeds(in.text)
         THEN /\ prompts' = prompts \cup {"auto_notice", "auto_context"}
              /\ context_line' = cin
              /\ IF cin.exc = "none"
                   THEN /\ user_context' = Strip(cin.text)
                        /\ pc' = "generate"
                        /\ UNCHANGED <<exit_code, outcome>>
                   ELSE /\ Exit(1, IF cin.exc = "KeyboardInterrupt"
                                     THEN "cancelled" ELSE "error")
                        /\ UNCHANGED user_context
         ELSE /\ prompts' = prompts \cup {"auto_notice"}
              /\ context_line' = Unasked
              /\ Exit(1, IF in.exc = "EOFError" THEN "error" ELSE "cancelled")
              /\ UNCHANGED user_context
  /\ ForgetCall
  /\ UNCHANGED <<inputV, libV, diff, hookV, review, should_continue, msgV, n_stage,
                 n_check_hooks, hook_log, review_calls, review_ok, gen_calls,
                 gen_ok, commits>>

\* auto-commit mode, any other review: user_context = ""
AutoClean ==
  /\ pc = "review_result"
  /\ args.all
  /\ ~has_critical_issues(review)
  /\ ~EndsWithNotice(review)
  /\ user_context' = <<>>
  /\ pc' = "generate"
  /\ ForgetCall
  /\ UNCHANGED <<exit_code, outcome, inputV, libV, diff, hookV, review, should_continue,
                 msgV, obsV>>
  /\ UNCHANGED promptV

\* variant: STOP_COMMIT anywhere in the review stops an interactive run
ReviewEndsWithStop_Anywhere(r) == Contains(STOP_COMMIT, r)

\* review.strip().endswith("STOP_COMMIT") in the interactive branch of main
ReviewEndsWithStop(r) == EndsWith(Strip(r), STOP_COMMIT)

\* interactive mode, review ends with STOP_COMMIT: "Critical issues detected.
\* Do you want to proceed anyway?" and, after a yes, the context prompt
InteractiveCritical ==
  /\ pc = "review_result"
  /\ ~args.all
  /\ ReviewEndsWithStop(review)
  /\ \E in \in InputOutcomes(YesNoTexts), cin \in InputOutcomes(ContextTexts) :
       /\ answer' = in
       /\ IF in.exc = "none" /\ CriticalProceeds(in.text)
         THEN /\ prompts' = prompts \cup {"critical", "critical_context"}
              /\ context_line' = cin
              /\ IF cin.exc = "none"
                   THEN /\ user_context' = Strip(cin.text)
                        /\ pc' = "generate"
                        /\ UNCHANGED <<exit_code, outcome>>
                   ELSE /\ IF cin.exc = "KeyboardInterrupt"
                             THEN Exit(0, "cancelled") ELSE Exit(1, "error")
                        /\ UNCHANGED user_context
         ELSE /\ prompts' = prompts \cup {"critical"}
              /\ context_line' = Unasked
              /\ IF in.exc = "EOFError" THEN Exit(1, "error") ELSE Exit(0, "cancelled")
              /\ UNCHANGED user_context
  /\ ForgetCall
  /\ UNCHANGED <<inputV, libV, diff, hookV, review, should_continue, msgV, n_stage,
                 n_check_hooks, hook_log, review_calls, review_ok, gen_calls,
                 gen_ok, commits>>

\* interactive mode, any other review: "Would you like to proceed with
\* generating a commit message?"
InteractiveProceed ==
  /\ pc = "review_result"
  /\ ~args.all
  /\ ~ReviewEndsWithStop(review)
  /\ prompts' = prompts \cup {"proceed"}
  /\ context_line' = Unasked
  /\ \E in \in InputOutcomes(ReviewPromptTexts) :
       /\ answer' = in
       /\ CASE in.exc = "KeyboardInterrupt" ->
              Exit(0, "cancelled") /\ UNCHANGED user_context
           [] in.exc = "EOFError" ->
              Exit(1, "error") /\ UNCHANGED user_context
           [] OTHER ->
              IF ReviewCancelled(in.text)
                THEN Exit(0, "cancelled") /\ UNCHANGED user_context
                ELSE /\ user_context' = ReviewContext(in.text)
                     /\ pc' = "generate"
                     /\ UNCHANGED <<exit_code, outcome>>
  /\ ForgetCall
  /\ UNCHANGED <<inputV, libV, diff, hookV, review, should_continue, msgV, n_stage,
                 n_check_hooks, hook_log, review_calls, review_ok, gen_calls,
                 gen_ok, commits>>

\* subprocess.run(commit_cmd): "git commit -m message", with --no-verify if
\* skip_git_hooks; git runs the repository's pre-commit hook unless
\* --no-verify is given; main exits 1 when git fails and leaves the loop
\* otherwise
GitCommit ==
  /\ \E succeeded \in BOOLEAN :
       /\ commits' = Append(commits,
            [message |-> message, no_verify |-> skip_git_hooks,
             hooks_run |-> IF skip_git_hooks THEN {}
                           ELSE repo.native_hooks \cap VerifyHooks,
             succeeded |-> succeeded])
       /\ IF succeeded THEN Exit(0, "committed") ELSE Exit(1, "error")

\* the message prompt: "(A)ccept, (c)ancel, or (r)egenerate?"; accept
AcceptMessage ==
  /\ pc = "choice"
  /\ prompts' = prompts \cup {"choice"}
  /\ context_line' = Unasked
  /\ \E in \in InputOutcomes(ChoiceTexts) :
       /\ answer' = in
       /\ in.exc = "none"
       /\ IsAccept(in.text)
       /\ choice' = Lower(in.text)
  /\ GitCommit
  /\ ForgetCall
  /\ UNCHANGED <<inputV, libV, diff, hookV, reviewV, message, n_stage,
                 n_check_hooks, hook_log, review_calls, review_ok, gen_calls, gen_ok>>

\* the message prompt; cancel
CancelMessage ==
  /\ pc = "choice"
  /\ prompts' = prompts \cup {"choice"}
  /\ context_line' = Unasked
  /\ \E in \in InputOutcomes(ChoiceTexts) :
       /\ answer' = in
       /\ in.exc = "none"
       /\ ~IsAccept(in.text)
       /\ IsCancel(in.text)
       /\ choice' = Lower(in.text)
  /\ Exit(0, "cancelled")
  /\ ForgetCall
  /\ UNCHANGED <<inputV, libV, diff, hookV, reviewV, message, n_stage,
                 n_check_hooks, hook_log, review_calls, review_ok, gen_calls,
                 gen_ok, commits>>

\* the message prompt; "r" and every unrecognised choice start the next
\* iteration of the loop
RegenerateMessage ==
  /\ pc = "choice"
  /\ Len(gen_calls) < MaxGenCalls
  /\ prompts' = prompts \cup {"choice"}
  /\ context_line' = Unasked
  /\ \E in \in InputOutcomes(ChoiceTexts) :
       /\ answer' = in
       /\ in.exc = "none"
       /\ ~IsAccept(in.text)
       /\ ~IsCancel(in.text)
       /\ choice' = Lower(in.text)
  /\ pc' = LoopHead
  /\ ForgetCall
  /\ UNCHANGED <<exit_code, outcome, inputV, libV, diff, hookV, reviewV, message, n_stage, n_check_hooks, hook_log, review_calls, review_ok,
                 gen_calls, gen_ok, commits>>

\* the message prompt; input() raises: KeyboardInterrupt reaches the outer
\* handler (os._exit(0)), EOFError the loop's "except Exception" (sys.exit(1))
MessagePromptRaises ==
  /\ pc = "choice"
  /\ prompts' = prompts \cup {"choice"}
  /\ context_line' = Unasked
  /\ \E in \in InputOutcomes(ChoiceTexts) :
       /\ answer' = in
       /\ in.exc # "none"
       /\ IF in.exc = "KeyboardInterrupt"
            THEN Exit(0, "cancelled") ELSE Exit(1, "error")
  /\ ForgetCall
  /\ UNCHANGED <<inputV, libV, diff, hookV, reviewV, msgV, n_stage,
                 n_check_hooks, hook_log, review_calls, review_ok, gen_calls,
                 gen_ok, commits>>

\* auto-commit mode: commit immediately without prompting
AutoCommit ==
  /\ pc = "auto_commit"
  /\ GitCommit
  /\ ForgetCall
  /\ UNCHANGED <<inputV, libV, diff, hookV, reviewV, msgV, n_stage,
                 n_check_hooks, prompts, hook_log, review_calls, review_ok,
                 gen_calls, gen_ok>>
  /\ UNCHANGED promptV

Next ==
  \/ Preflight
  \/ GatherDiff
  \/ SkipPreCommit
  \/ ForcedPreCommit
  \/ AutoHookDecision
  \/ InteractiveHookDecision
  \/ RunHooks
  \/ HooksFailedForce
  \/ HooksFailedAuto
  \/ HooksFailedAsk
  \/ HooksPassed
  \/ UpdateDiff
  \/ VerbosePreview
  \/ ReviewCall
  \/ ApiAttempt
  \/ AutoCritical
  \/ AutoNotice
  \/ AutoClean
  \/ InteractiveCritical
  \/ InteractiveProceed
  \/ GenerateCall
  \/ AcceptMessage
  \/ CancelMessage
  \/ RegenerateMessage
  \/ MessagePromptRaises
  \/ AutoCommit

Spec == Init /\ [][Next]_vars

\* the run of main as the process executes it: a step that can be taken is
\* taken, every input() returns or raises, and the user leaves the message
\* loop after at most MaxGenCalls messages
LiveSpec == Init /\ [][Next]_vars /\ WF_vars(Next)

(***************************************************************************)
(* get_filtered_diff (src/git_cam/utils.py).                               *)
(*                                                                         *)
(* A status line and a path are texts.  The content of a file and the      *)
(* output of "git diff --cached" are modelled by their lengths in bytes:   *)
(* body is the length up to the last byte that is not whitespace, tail the *)
(* length of the whitespace after it.                                      *)
(***************************************************************************)
\* at most this many lines in the output of "git status --porcelain"
MaxStatusLines == 3

\* s.startswith(prefix)
StartsWith(s, prefix) ==
  /\ Len(prefix) <= Len(s)
  /\ SubSeq(s, 1, Len(prefix)) = prefix

\* s[:n]
UpTo(s, n) == SubSeq(s, 1, IF n < Len(s) THEN n ELSE Len(s))

\* s[n:]
From(s, n) == SubSeq(s, n + 1, Len(s))

\* s.split(sep)
RECURSIVE Split(_, _)
Split(s, sep) ==
  IF Contains(sep, s)
    THEN LET i == Min(Occurrences(sep, s))
         IN <<SubSeq(s, 1, i - 1)>> \o Split(SubSeq(s, i + Len(sep), Len(s)), sep)
    ELSE <<s>>

\* " -> "
Arrow == <<" ","-",">"," ">>

Blob(body, tail) == [body |-> body, tail |-> tail]

\* len(content)
BlobLen(content) == content.body + content.tail

\* content.rstrip()
BlobRStrip(content) == Blob(content.body, 0)

\* the lines "git status --porcelain" prints: XY, a blank, the path
StatusLines ==
  { <<"A"," "," ","a">>,                       \* added
    <<"A","M"," ","b">>,                       \* added, changed again since
    <<"M"," "," ","c">>,                       \* modified, staged
    <<" ","M"," ","d">>,                       \* modified, not staged
    <<"D"," "," ","e">>,                       \* deleted, staged
    <<"R"," "," ","f"," ","-",">"," ","g">>,   \* renamed f to g
    <<"?","?"," ","h">>,                       \* untracked
    <<"M","D"," ","i">> }                      \* modified, staged; deleted since

\* the outputs of "git status --porcelain": no path is listed twice
StatusOutputs ==
  UNION { { s \in [1..n -> StatusLines] : \A i, j \in 1..n : s[i] = s[j] => i = j }
          : n \in 0..MaxStatusLines }

\* os.path.getsize(file) returns the size of the working-tree file or raises
SizeOf(n) == [exc |-> "none", size |-> n]

OSError == [exc |-> "OSError", size |-> 0]

GetSizeOutcomes == {SizeOf(n) : n \in {0, 8191, 8192, 20000}} \cup {OSError}

\* the outputs of "git show :file"
StagedContents == {Blob(0, 0), Blob(0, 2), Blob(120, 1), Blob(9000, 0)}

\* the outputs of "git diff --cached file"
CachedDiffs == {Blob(0, 0), Blob(300, 1), Blob(20000, 1)}

\* no subprocess was run
NotRun == Blob(0, 0)

\* variant: the second status column decides
Category_SecondColumn(status_code) ==
  IF StartsWith(From(status_code, 1), <<"R">>) THEN "moved"
  ELSE IF StartsWith(From(status_code, 1), <<"A">>) THEN "new"
  ELSE IF StartsWith(From(status_code, 1), <<"M">>) THEN "modified"
  ELSE IF StartsWith(From(status_code, 1), <<"D">>) THEN "deleted"
  ELSE "none"

\* the if/elif chain over status_code.startswith(...)
Category(status_code) ==
  IF StartsWith(status_code, <<"R">>) THEN "moved"
  ELSE IF StartsWith(status_code, <<"A">>) THEN "new"
  ELSE IF StartsWith(status_code, <<"M">>) THEN "modified"
  ELSE IF StartsWith(status_code, <<"D">>) THEN "deleted"
  ELSE "none"

\* "if not line.startswith(' ')": only staged files are looked at
IsStaged(line) == ~StartsWith(line, <<" ">>)

\* 8KB = 8192 bytes
InlineLimit == 8192

\* variant: a file of exactly 8192 bytes is read too
UnderLimit_Inclusive(got) == got.exc = "none" /\ got.size <= InlineLimit

\* os.path.getsize(file) did not raise and "file_size < 8192"
UnderLimit(got) == got.exc = "none" /\ got.size < InlineLimit

\* an element of diff_parts: a line of text, or the content of a file
TextPart(text) == [kind |-> "text", text |-> text, file |-> <<>>, size |-> Len(text)]

\* variant: content beyond the inline limit is cut off
ContentPart_Truncated(kind, file, content) ==
  [kind |-> kind, text |-> <<>>, file |-> file,
   size |-> IF BlobLen(content) < InlineLimit THEN BlobLen(content) ELSE InlineLimit]

ContentPart(kind, file, content) ==
  [kind |-> kind, text |-> <<>>, file |-> file, size |-> BlobLen(content)]

RECURSIVE SumSizes(_)
SumSizes(parts) ==
  IF parts = <<>> THEN 0 ELSE Head(parts).size + SumSizes(Tail(parts))

\* "\n".join(diff_parts): the parts with one newline between two of them
Join(parts) ==
  [parts |-> parts,
   size  |-> IF parts = <<>> THEN 0 ELSE SumSizes(parts) + Len(parts) - 1]

notDiffV == <<mainV, configV, batchV, insightV>>

notConfigV == <<mainV, diffV, batchV, insightV>>

notBatchV == <<mainV, diffV, configV, insightV>>

notInsightV == <<mainV, diffV, configV, batchV>>

\* status = subprocess.run(["git", "status", "--porcelain"], ...).stdout
GetFilteredDiff ==
  /\ fd_pc = "idle"
  /\ status' \in StatusOutputs
  /\ fd_pc' = "parse"
  /\ UNCHANGED <<line_no, modified_files, new_files, moved_files,
                 deleted_files, diff_parts, new_file_parts, fd_i, file_reads,
                 filtered_diff>>
  /\ UNCHANGED notDiffV

\* one iteration of "for line in status.splitlines()"
ParseStatusLine ==
  /\ fd_pc = "parse"
  /\ line_no < Len(status)
  /\ line_no' = line_no + 1
  /\ LET line == status[line_no + 1]
         status_code == UpTo(line, 2)
         file_path == From(line, 3)
         paths == Split(file_path, Arrow)
         category == IF IsStaged(line) THEN Category(status_code) ELSE "none"
     IN /\ IF category = "moved" /\ Len(paths) # 2
             THEN fd_pc' = "ValueError"    \* old_path, new_path = ... does not unpack
             ELSE fd_pc' = fd_pc
        /\ moved_files' = IF category = "moved" /\ Len(paths) = 2
                            THEN Append(moved_files, <<paths[1], paths[2]>>)
                            ELSE moved_files
        /\ new_files' = IF category = "new"
                          THEN Append(new_files, file_path) ELSE new_files
        /\ modified_files' = IF category = "modified"
                               THEN Append(modified_files, file_path)
                               ELSE modified_files
        /\ deleted_files' = IF category = "deleted"
                              THEN Append(deleted_files, file_path)
                              ELSE deleted_files
  /\ UNCHANGED <<status, diff_parts, new_file_parts, fd_i, file_reads, filtered_diff>>
  /\ UNCHANGED notDiffV

\* "if deleted_files:" and the heading of "if new_files:"
ListDeleted ==
  /\ fd_pc = "parse"
  /\ line_no = Len(status)
  /\ diff_parts' =
       (IF deleted_files # <<>>
          THEN <<TextPart(<<"D","e","l","e","t","e","d"," ","f","i","l","e","s"," ","(","-",")",":">>)>>
               \o [i \in 1..Len(deleted_files) |-> TextPart(<<"-"," ">> \o deleted_files[i])]
               \o <<TextPart(<<>>)>>
          ELSE <<>>)
       \o (IF new_files # <<>>
             THEN <<TextPart(<<"N","e","w"," ","f","i","l","e","s"," ","a","d","d","e","d"," ","(","+",")",":">>)>>
             ELSE <<>>)
  /\ fd_i' = 0
  /\ fd_pc' = "new"
  /\ UNCHANGED <<status, line_no, modified_files, new_files, moved_files,
                 deleted_files, new_file_parts, file_reads, filtered_diff>>
  /\ UNCHANGED notDiffV

\* one iteration of "for file in new_files"
InlineNewFile ==
  /\ fd_pc = "new"
  /\ fd_i < Len(new_files)
  /\ fd_i' = fd_i + 1
  /\ LET file == new_files[fd_i + 1]
     IN /\ diff_parts' = Append(diff_parts, TextPart(<<"+"," ">> \o file))
        /\ \E got \in GetSizeOutcomes, staged \in StagedContents :
             \* git show runs under the limit only; "if file_content:"
             LET file_content == IF UnderLimit(got) THEN staged ELSE NotRun
             IN /\ file_reads' = Append(file_reads,
                     [file |-> file, got |-> got, content |-> staged])
                /\ new_file_parts' =
                     IF BlobLen(file_content) > 0
                       THEN new_file_parts \o
                            << TextPart(<<"\n","C","o","n","t","e","n","t"," ","o","f"," ","n","e","w"," ","f","i","l","e"," ","'">>
                                        \o file \o <<"'",":">>),
                               TextPart(<<"[","S","T","A","R","T"," ","O","F"," ","F","I","L","E"," ","'">>
                                        \o file \o <<"'","]">>),
                               ContentPart("content", file, BlobRStrip(file_content)),
                               TextPart(<<"[","E","N","D"," ","O","F"," ","F","I","L","E"," ","'">>
                                        \o file \o <<"'","]">>) >>
                       ELSE new_file_parts
  /\ UNCHANGED <<status, line_no, modified_files, new_files, moved_files,
                 deleted_files, fd_pc, filtered_diff>>
  /\ UNCHANGED notDiffV

\* the end of "if new_files:", "if new_file_parts:", "if moved_files:" and the
\* heading of "if modified_files:"
ListMoved ==
  /\ fd_pc = "new"
  /\ fd_i = Len(new_files)
  /\ diff_parts' =
       diff_parts
       \o (IF new_files # <<>> THEN <<TextPart(<<>>)>> ELSE <<>>)
       \o new_file_parts
       \o (IF moved_files # <<>>
             THEN <<TextPart(<<"F","i","l","e","s"," ","m","o","v","e","d",":">>)>>
                  \o [i \in 1..Len(moved_files) |->
                        TextPart(<<"→"," ">> \o moved_files[i][1] \o Arrow \o moved_files[i][2])]
                  \o <<TextPart(<<>>)>>
             ELSE <<>>)
       \o (IF modified_files # <<>>
             THEN <<TextPart(<<"M","o","d","i","f","i","e","d"," ","f","i","l","e","s"," ","(","~",")",":">>)>>
             ELSE <<>>)
  /\ fd_i' = 0
  /\ fd_pc' = "modified"
  /\ UNCHANGED <<status, line_no, modified_files, new_files, moved_files,
                 deleted_files, new_file_parts, file_reads, filtered_diff>>
  /\ UNCHANGED notDiffV

\* one iteration of "for file in modified_files"
DiffModifiedFile ==
  /\ fd_pc = "modified"
  /\ fd_i < Len(modified_files)
  /\ fd_i' = fd_i + 1
  /\ LET file == modified_files[fd_i + 1]
     IN \E file_diff \in CachedDiffs :
          /\ file_reads' = Append(file_reads,
               [file |-> file, got |-> SizeOf(0), content |-> file_diff])
          /\ diff_parts' =
               IF BlobLen(file_diff) > 0
                 THEN diff_parts \o
                      << TextPart(<<"~"," ">> \o file),
                         TextPart(<<"[","S","T","A","R","T"," ","O","F"," ","M","O","D","I","F","I","C","A","T","I","O","N","S"," ","F","O","R"," ","'">>
                                  \o file \o <<"'","]">>),
                         ContentPart("diff", file, file_diff),
                         TextPart(<<"[","E","N","D"," ","O","F"," ","M","O","D","I","F","I","C","A","T","I","O","N","S"," ","F","O","R"," ","'">>
                                  \o file \o <<"'","]">>) >>
                 ELSE diff_parts
  /\ UNCHANGED <<status, line_no, modified_files, new_files, moved_files,
                 deleted_files, new_file_parts, fd_pc, filtered_diff>>
  /\ UNCHANGED notDiffV

\* the three return statements: "\n".join(diff_parts), or ""
ReturnDiff ==
  /\ fd_pc = "modified"
  /\ fd_i = Len(modified_files)
  /\ filtered_diff' = Join(diff_parts)
  /\ fd_pc' = "returned"
  /\ UNCHANGED <<status, line_no, modified_files, new_files, moved_files,
                 deleted_files, diff_parts, new_file_parts, fd_i, file_reads>>
  /\ UNCHANGED notDiffV

DiffInit == MainIdle /\ LibIdle

DiffNext ==
  \/ GetFilteredDiff
  \/ ParseStatusLine
  \/ ListDeleted
  \/ InlineNewFile
  \/ ListMoved
  \/ DiffModifiedFile
  \/ ReturnDiff

DiffSpec == DiffInit /\ [][DiffNext]_vars

(***************************************************************************)
(* The history limit in git config: get_git_config_history_limit,          *)
(* set_history_limit and setup_api_key (src/git_cam/utils.py).             *)
(***************************************************************************)
Digits == <<"0","1","2","3","4","5","6","7","8","9">>

DigitValue(c) == (CHOOSE i \in 1..Len(Digits) : Digits[i] = c) - 1

IsDigit(c) == \E i \in 1..Len(Digits) : Digits[i] = c

RECURSIVE NatStr(_)
NatStr(n) ==
  IF n < 10 THEN <<Digits[n + 1]>> ELSE NatStr(n \div 10) \o <<Digits[(n % 10) + 1]>>

\* str(n)
Str(n) == IF n < 0 THEN <<"-">> \o NatStr(0 - n) ELSE NatStr(n)

\* the value of a literal of digits and underscores, read from the left
RECURSIVE DigitsValue(_, _)
DigitsValue(body, acc) ==
  IF body = <<>> THEN acc
  ELSE IF Head(body) = "_" THEN DigitsValue(Tail(body), acc)
  ELSE DigitsValue(Tail(body), 10 * acc + DigitValue(Head(body)))

\* int(s): whitespace around the literal is ignored, then an optional sign
\* and digits, with single underscores between digits; ValueError otherwise
ParseInt(s) ==
  LET t == Strip(s)
      signed == t # <<>> /\ Head(t) \in {"+", "-"}
      body == IF signed THEN Tail(t) ELSE t
      valid == /\ body # <<>>
               /\ \A i \in 1..Len(body) : IsDigit(body[i]) \/ body[i] = "_"
               /\ body[1] # "_"
               /\ body[Len(body)] # "_"
               /\ \A i \in 1..(Len(body) - 1) : ~(body[i] = "_" /\ body[i + 1] = "_")
  IN IF valid
       THEN [ok |-> TRUE,
             value |-> IF signed /\ Head(t) = "-"
                         THEN 0 - DigitsValue(body, 0) ELSE DigitsValue(body, 0)]
       ELSE [ok |-> FALSE, value |-> 0]

\* cam.historylimit in the global git config
Unset == [set |-> FALSE, value |-> <<>>]

Stored(value) == [set |-> TRUE, value |-> value]

\* the default of get_git_config_history_limit and of setup_api_key
DefaultHistoryLimit == 5

\* get_git_config_history_limit(): int of the stripped output of
\* "git config --global --get cam.historylimit", 5 if empty or not a number
get_git_config_history_limit(stored) ==
  LET stdout == IF stored.set THEN stored.value \o <<"\n">> ELSE <<>>
  IN IF Strip(stdout) = <<>> THEN DefaultHistoryLimit
     ELSE IF ParseInt(Strip(stdout)).ok THEN ParseInt(Strip(stdout)).value
     ELSE DefaultHistoryLimit

\* what "git config --global cam.historylimit <value>" can leave stored: the
\* value, or, for a value that starts like an option, also the old setting
GitConfigSet(stored, value) ==
  IF StartsWith(value, <<"-">>) THEN {Stored(value), stored} ELSE {Stored(value)}

\* variant: 21 is accepted
InRange_UpTo21(limit) == 0 <= limit /\ limit <= 21

\* "limit < 0" and "limit > 20" of set_history_limit, and
\* "0 <= history_limit_int <= 20" of setup_api_key
InRange(limit) == 0 <= limit /\ limit <= 20

\* what can be passed as LIMIT, or typed at the history prompt of --setup
LimitTexts ==
  { <<"0">>, <<"2","0">>, <<"2","1">>, <<"-","1">>, <<" ","7"," ">>,
    <<"a","b","c">>, <<"3",".","5">>, <<"+","5">>, <<"1","_","0">>,
    <<"-","0">>, <<"0","0","7">>, <<>> }

\* no prompt was built
NoPrompt ==
  [op |-> "none", history_context |-> <<>>, text |-> <<>>,
   env |-> [recent |-> [returncode |-> 0, stdout |-> <<>>], staged_files |-> <<>>,
            file |-> [returncode |-> 0, stdout |-> <<>>]]]

\* no call yet
NoCall == [op |-> "none", input |-> Unasked, returned |-> FALSE, before |-> Unset]

\* set_history_limit(limit)
SetHistoryLimit ==
  /\ \E limit \in LimitTexts :
       LET parsed == ParseInt(limit)
       IN IF parsed.ok /\ InRange(parsed.value)
            THEN /\ historylimit' \in GitConfigSet(historylimit, Str(parsed.value))
                 /\ config_call' = [op |-> "set_history_limit", input |-> Typed(limit),
                                    returned |-> TRUE, before |-> historylimit]
            ELSE /\ historylimit' = historylimit
                 /\ config_call' = [op |-> "set_history_limit", input |-> Typed(limit),
                                    returned |-> FALSE, before |-> historylimit]
  /\ git_log' = <<>>
  /\ sent_prompt' = NoPrompt
  /\ UNCHANGED notConfigV

\* setup_api_key(): the history prompt and what follows it; an exception of
\* an input() call leaves the function before the limit is stored
SetupApiKey ==
  /\ \E in \in InputOutcomes(LimitTexts) :
       /\ config_call' = [op |-> "setup_api_key", input |-> in,
                          returned |-> in.exc = "none", before |-> historylimit]
       /\ IF in.exc # "none"
            THEN historylimit' = historylimit
            ELSE LET existing_history_limit == get_git_config_history_limit(historylimit)
                     history_limit == IF Strip(in.text) = <<>>
                                        THEN Str(existing_history_limit)
                                        ELSE Strip(in.text)
                     parsed == ParseInt(history_limit)
                 IN IF parsed.ok /\ InRange(parsed.value)
                      THEN historylimit' \in GitConfigSet(historylimit, history_limit)
                      ELSE historylimit' = Stored(Str(DefaultHistoryLimit))
  /\ git_log' = <<>>
  /\ sent_prompt' = NoPrompt
  /\ UNCHANGED notConfigV

(***************************************************************************)
(* History context and the two prompts: get_recent_git_history,            *)
(* get_affected_files_history, get_contextual_history,                     *)
(* perform_code_review and generate_commit_message                         *)
(* (src/git_cam/utils.py).                                                 *)
(***************************************************************************)
\* the heading of history_section
HistoryHeading ==
  <<"\n","G","i","t"," ","H","i","s","t","o","r","y"," ","C","o","n","t","e","x",
    "t",":","\n">>

\* the review prompt: head up to history_section (the fixed instructions after
\* the second sentence are left out) and the heading of the diff
ReviewText ==
  [head |->
     <<"R","e","v","i","e","w"," ","t","h","i","s"," ","g","i","t"," ","d","i","f",
     "f"," ","f","o","r"," ","p","o","t","e","n","t","i","a","l"," ","i","s","s",
     "u","e","s","."," ","T","h","e"," ","g","i","t"," ","h","i","s","t","o","r",
     "y"," ","c","o","n","t","e","x","t"," ","h","e","l","p","s"," ","y","o","u",
     " ","u","n","d","e","r","s","t","a","n","d"," ","r","e","c","e","n","t"," ",
     "d","e","v","e","l","o","p","m","e","n","t"," ","p","a","t","t","e","r","n",
     "s"," ","a","n","d"," ","t","h","e"," ","e","v","o","l","u","t","i","o","n",
     " ","o","f"," ","t","h","e","s","e"," ","f","i","l","e","s",".","\n","\n">>,
   diff |->
     <<"H","e","r","e","'","s"," ","t","h","e"," ","d","i","f","f"," ","(","r","e",
     "m","e","m","b","e","r",","," ","l","i","n","e","s"," ","s","t","a","r","t",
     "i","n","g"," ","w","i","t","h"," ","+"," ","h","a","v","e"," ","b","e","e",
     "n"," ","a","d","d","e","d",","," ","l","i","n","e","s"," ","s","t","a","r",
     "t","i","n","g"," ","w","i","t","h"," ","-"," ","a","r","e"," ","r","e","m",
     "o","v","e","d",")",":","\n","\n">>]

\* the brackets around config_instructions in both prompts
InstructionsText ==
  [start |->
     <<"G","l","o","b","a","l"," ","s","y","s","t","e","m"," ","i","n","s","t","r",
     "u","c","t","i","o","n","s"," ","[","S","t","a","r","t","]",":"," ">>,
   end |->
     <<" ","[","e","n","d"," ","s","y","s","t","e","m"," ","i","n","s","t","r","u",
     "c","t","i","o","n","s","]","\n","\n">>]

\* the commit-message prompt: head up to review_content (the two fixed
\* paragraphs before "Code Review:" are left out), the brackets around the user
\* context, and the heading of the diff (the fixed reply format before it is
\* left out)
MessageText ==
  [head |->
     <<"A","n","a","l","y","s","e"," ","t","h","i","s"," ","g","i","t"," ","d","i",
     "f","f"," ","a","n","d"," ","c","o","d","e"," ","r","e","v","i","e","w"," ",
     "t","o"," ","g","e","n","e","r","a","t","e"," ","a"," ","c","o","m","m","i",
     "t"," ","m","e","s","s","a","g","e","."," ","U","s","e"," ","i","n","s","i",
     "g","h","t","s"," ","f","r","o","m"," ","t","h","e"," ","r","e","v","i","e",
     "w",","," ","g","i","t"," ","h","i","s","t","o","r","y"," ","c","o","n","t",
     "e","x","t",","," ","a","n","d"," ","a","n","y"," ","u","s","e","r","-","p",
     "r","o","v","i","d","e","d"," ","c","o","n","t","e","x","t"," ","t","o"," ",
     "m","a","k","e"," ","t","h","e"," ","c","o","m","m","i","t"," ","m","e","s",
     "s","a","g","e"," ","m","o","r","e"," ","d","e","s","c","r","i","p","t","i",
     "v","e"," ","o","f"," ","t","h","e"," ","c","h","a","n","g","e","s","'"," ",
     "p","u","r","p","o","s","e"," ","a","n","d"," ","i","m","p","a","c","t",".",
     "\n","\n","C","o","d","e"," ","R","e","v","i","e","w",":","\n">>,
   user_heading |->
     <<"\n","U","s","e","r"," ","p","r","o","v","i","d","e","d"," ","c","o","n","t",
     "e","x","t",":","\n">>,
   user_start |->
     <<"\n","\n","U","s","e","r"," ","c","o","n","t","e","x","t"," ","[","S","t",
     "a","r","t","]",":"," ">>,
   user_end |->
     <<" ","[","e","n","d"," ","u","s","e","r"," ","c","o","n","t","e","x","t","]",
     "\n","\n">>,
   diff |->
     <<"H","e","r","e","'","s"," ","t","h","e"," ","d","i","f","f",":","\n","\n">>]

\* the three pieces of hook_context
HookText ==
  [head |->
     <<"\n","I","M","P","O","R","T","A","N","T",":"," ","T","h","i","s"," ","c","o",
     "m","m","i","t"," ","w","i","l","l"," ","b","y","p","a","s","s"," ","g","i",
     "t"," ","h","o","o","k","s"," ","(","-","-","n","o","-","v","e","r","i","f",
     "y",")"," ","b","e","c","a","u","s","e"," ","p","r","e","-","c","o","m","m",
     "i","t"," ","c","h","e","c","k","s"," ","f","a","i","l","e","d"," ","b","u",
     "t"," ","t","h","e"," ","u","s","e","r"," ","c","h","o","s","e"," ","t","o",
     " ","p","r","o","c","e","e","d"," ","a","n","y","w","a","y",".">>,
   reason |->
     <<" ","R","e","a","s","o","n"," ","g","i","v","e","n",":"," ","'">>,
   tail |->
     <<" ","C","o","n","s","i","d","e","r"," ","i","f"," ","t","h","i","s"," ","c",
     "o","n","t","e","x","t"," ","s","h","o","u","l","d"," ","b","e"," ","r","e",
     "f","l","e","c","t","e","d"," ","i","n"," ","t","h","e"," ","c","o","m","m",
     "i","t"," ","m","e","s","s","a","g","e",".">>]

\* sep.join(lines)
RECURSIVE JoinWith(_, _)
JoinWith(lines, sep) ==
  IF lines = <<>> THEN <<>>
  ELSE IF Len(lines) = 1 THEN lines[1]
  ELSE lines[1] \o sep \o JoinWith(Tail(lines), sep)

\* [f"  {line}" for line in lines if line.strip()]
Indented(lines) ==
  LET kept == SelectSeq(lines, LAMBDA line : Strip(line) # <<>>)
  IN [i \in 1..Len(kept) |-> <<" "," ">> \o kept[i]]

\* a "git log --oneline" run: its return code and its output
LogRun(returncode, stdout) == [returncode |-> returncode, stdout |-> stdout]

LogRuns ==
  { LogRun(0, <<>>),
    LogRun(128, <<>>),
    LogRun(0, <<"a","1"," ","f","i","x"," ","a","\n","b","2"," ","a","d","d"," ","b","\n">>) }

\* the outputs of get_staged_files()
StagedFileLists == { <<>>, << <<"a">> >> }

\* what git answers during one get_contextual_history call
LogEnvs == [recent : LogRuns, staged_files : StagedFileLists, file : LogRuns]

get_recent_git_history(limit, run) ==
  IF limit <= 0 THEN <<>>
  ELSE IF run.returncode # 0 THEN <<>>
  ELSE IF Strip(run.stdout) = <<>> THEN <<>>
  ELSE <<"R","e","c","e","n","t"," ","c","o","m","m","i","t"," ",
         "h","i","s","t","o","r","y",":","\n">>
       \o JoinWith(Indented(Split(Strip(run.stdout), <<"\n">>)), <<"\n">>)

\* history_parts of get_affected_files_history, for staged_files[:5]
RECURSIVE FileHistoryParts(_, _)
FileHistoryParts(file_paths, run) ==
  IF file_paths = <<>> THEN <<>>
  ELSE (IF run.returncode = 0 /\ Strip(run.stdout) # <<>>
          THEN LET file_history == Split(Strip(run.stdout), <<"\n">>)
               IN IF file_history[1] # <<>>
                    THEN << <<"\n","R","e","c","e","n","t"," ","c","h","a","n","g",
                              "e","s"," ","t","o"," ">>
                            \o Head(file_paths) \o <<":">> >>
                         \o Indented(UpTo(file_history, 3))
                    ELSE <<>>
          ELSE <<>>)
       \o FileHistoryParts(Tail(file_paths), run)

get_affected_files_history(staged_files, limit, run) ==
  IF limit <= 0 \/ staged_files = <<>> THEN <<>>
  ELSE JoinWith(FileHistoryParts(UpTo(staged_files, 5), run), <<"\n">>)

\* the "git log" commands one get_contextual_history call runs: -n and path
GitLogCommands(history_limit, staged_files) ==
  IF history_limit <= 0 THEN <<>>
  ELSE <<[n |-> history_limit, path |-> <<>>]>>
       \o [i \in 1..Len(UpTo(staged_files, 5)) |->
             [n |-> IF history_limit < 10 THEN history_limit ELSE 10,
              path |-> staged_files[i]]]

\* variant: the general history is fetched whatever the limit is
get_contextual_history_Always(stored, env) ==
  LET recent_history == get_recent_git_history(DefaultHistoryLimit, env.recent)
  IN [text |-> recent_history,
      commands |-> <<[n |-> DefaultHistoryLimit, path |-> <<>>]>>]

get_contextual_history(stored, env) ==
  LET history_limit == get_git_config_history_limit(stored)
      recent_history == get_recent_git_history(history_limit, env.recent)
      file_history == get_affected_files_history(
                        env.staged_files,
                        IF history_limit < 10 THEN history_limit ELSE 10, env.file)
      context_parts == (IF recent_history # <<>> THEN <<recent_history>> ELSE <<>>)
                       \o (IF file_history # <<>> THEN <<file_history>> ELSE <<>>)
  IN IF history_limit <= 0
       THEN [text |-> <<>>, commands |-> <<>>]
       ELSE [text |-> JoinWith(context_parts, <<"\n">>),
             commands |-> GitLogCommands(history_limit, env.staged_files)]

\* hook_context of generate_commit_message
HookContext(skip_hooks, reason) ==
  IF skip_hooks
    THEN HookText.head
         \o (IF reason # <<>> THEN HookText.reason \o reason \o <<"'">> ELSE <<>>)
         \o HookText.tail
    ELSE <<>>

\* the content of the user message perform_code_review sends
ReviewPrompt(history_context, config_instructions, d) ==
  LET history_section == IF history_context # <<>>
                           THEN HistoryHeading \o history_context \o <<"\n">>
                           ELSE <<>>
  IN ReviewText.head \o history_section
     \o InstructionsText.start \o config_instructions \o InstructionsText.end
     \o ReviewText.diff \o d

\* the content of the user message generate_commit_message sends
MessagePrompt(history_context, d, review_content, context, config_instructions, skip_hooks, reason) ==
  LET context_section == IF context # <<>>
                           THEN MessageText.user_heading \o context ELSE <<>>
      history_section == IF history_context # <<>>
                           THEN HistoryHeading \o history_context ELSE <<>>
  IN MessageText.head \o review_content
     \o MessageText.user_start \o context_section \o MessageText.user_end
     \o history_section \o HookContext(skip_hooks, reason)
     \o <<"\n","\n">>
     \o InstructionsText.start \o config_instructions \o InstructionsText.end
     \o MessageText.diff \o d

\* cam.instructions
Instructions == { <<>>, <<"t","e","r","s","e">> }

\* perform_code_review up to the call of the API
PerformCodeReview ==
  /\ \E env \in LogEnvs, config_instructions \in Instructions :
       LET history == get_contextual_history(historylimit, env)
       IN /\ git_log' = history.commands
          /\ sent_prompt' = [op |-> "perform_code_review", env |-> env,
                             history_context |-> history.text,
                             text |-> ReviewPrompt(history.text, config_instructions, <<"+","a">>)]
  /\ config_call' = NoCall
  /\ UNCHANGED historylimit
  /\ UNCHANGED notConfigV

\* generate_commit_message up to the call of the API
GenerateCommitMessage ==
  /\ \E env \in LogEnvs, context \in {<<>>, <<"w","i","p">>}, skip_hooks \in BOOLEAN :
       LET history == get_contextual_history(historylimit, env)
       IN /\ git_log' = history.commands
          /\ sent_prompt' = [op |-> "generate_commit_message", env |-> env,
                             history_context |-> history.text,
                             text |-> MessagePrompt(history.text, <<"+","a">>,
                                               <<"f","i","n","e"," ","O","K">>, context,
                                               <<>>, skip_hooks, context)]
  /\ config_call' = NoCall
  /\ UNCHANGED historylimit
  /\ UNCHANGED notConfigV

\* cam.historylimit is unset or holds a value in range
ConfigInit ==
  /\ MainIdle
  /\ DiffIdle
  /\ BatchIdle
  /\ InsightIdle
  /\ historylimit \in {Unset} \cup {Stored(Str(n)) : n \in {0, 5, 20}}
  /\ config_call = NoCall
  /\ git_log = <<>>
  /\ sent_prompt = NoPrompt

ConfigNext ==
  \/ SetHistoryLimit
  \/ SetupApiKey
  \/ PerformCodeReview
  \/ GenerateCommitMessage

ConfigSpec == ConfigInit /\ [][ConfigNext]_vars

(***************************************************************************)
(* get_file_batch (src/git_cam/recheck.py).                                *)
(***************************************************************************)
\* at most this many files are passed to get_file_batch
MaxFiles == 5

\* the default of the parameter batch_size
batch_size == 50000

\* "size > 16384": files above 16 KiB are left out
MaxFileSize == 16384

\* the sizes of the files of the repository
FileSizes == {0, 848, 849, 16384, 16385}

\* the i-th path of the walk
PathOf(i) == <<"f", Digits[i + 1]>>

\* the lists of (filepath, size) the repository walk can give
FileLists ==
  UNION { { [i \in 1..n |-> <<PathOf(i), sizes[i]>>] : sizes \in [1..n -> FileSizes] }
          : n \in 0..MaxFiles }

\* "if size > 16384 or size > batch_size or size == 0: continue"
Skipped(size) == size > MaxFileSize \/ size > batch_size \/ size = 0

\* variant: one byte more than batch_size still fits
Overflows_OffByOne(total, size) == total + size > batch_size + 1

\* "if current_size + size > batch_size"
Overflows(total, size) == total + size > batch_size

\* files = the list get_file_batch is called with
GetFileBatch ==
  /\ fb_pc = "idle"
  /\ files' \in FileLists
  /\ fb_pc' = "loop"
  /\ UNCHANGED <<fb_i, batches, current_batch, current_size>>
  /\ UNCHANGED notBatchV

\* one iteration of "for filepath, size in files"
BatchFile ==
  /\ fb_pc = "loop"
  /\ fb_i < Len(files)
  /\ fb_i' = fb_i + 1
  /\ LET filepath == files[fb_i + 1][1]
         size == files[fb_i + 1][2]
         entry == [path |-> filepath, size |-> size, content |-> "None"]
     IN IF Skipped(size)
          THEN UNCHANGED <<batches, current_batch, current_size>>
          ELSE IF Overflows(current_size, size)
            THEN /\ batches' = IF current_batch # <<>>
                                 THEN Append(batches, current_batch) ELSE batches
                 /\ current_batch' = <<entry>>
                 /\ current_size' = size
            ELSE /\ current_batch' = Append(current_batch, entry)
                 /\ current_size' = current_size + size
                 /\ UNCHANGED batches
  /\ UNCHANGED <<files, fb_pc>>
  /\ UNCHANGED notBatchV

\* "if current_batch: batches.append(current_batch)" and "return batches"
ReturnBatches ==
  /\ fb_pc = "loop"
  /\ fb_i = Len(files)
  /\ batches' = IF current_batch # <<>> THEN Append(batches, current_batch) ELSE batches
  /\ fb_pc' = "returned"
  /\ UNCHANGED <<files, fb_i, current_batch, current_size>>
  /\ UNCHANGED notBatchV

BatchInit == MainIdle /\ LibIdle

BatchNext ==
  \/ GetFileBatch
  \/ BatchFile
  \/ ReturnBatches

BatchSpec == BatchInit /\ [][BatchNext]_vars

(***************************************************************************)
(* analyze_repository: the insights carried from batch to batch            *)
(* (src/git_cam/recheck.py).                                               *)
(***************************************************************************)
\* at most this many batches are analysed
MaxBatches == 4

\* "\n\n"
BlankLine == <<"\n","\n">>

\* s[-n:]
LastN(s, n) == SubSeq(s, IF Len(s) > n THEN Len(s) - n + 1 ELSE 1, Len(s))

\* the texts the summary call can return: one paragraph, one paragraph in
\* white space, nothing, two paragraphs, four paragraphs
SummaryTexts ==
  { <<"a">>,
    <<" ","b","\n">>,
    <<>>,
    <<"c","\n","\n","d">>,
    <<"e","\n","\n","f","\n","\n","g","\n","\n","h">> }

\* "\n\n".join([accumulated_insights, new_insights]).split("\n\n")[-3:]
\* and "\n\n".join(accumulated_insights).strip()
UpdateInsights(accumulated, new_insights) ==
  LET kept == LastN(Split(JoinWith(<<accumulated, new_insights>>, BlankLine), BlankLine), 3)
  IN Strip(JoinWith(kept, BlankLine))

\* batches = get_file_batch(all_files), not empty, and the confirmation passed
AnalyzeRepository ==
  /\ ar_pc = "idle"
  /\ total_batches' \in 1..MaxBatches
  /\ batch_num' = 0
  /\ all_recommendations' = 0
  /\ accumulated_insights' = <<>>
  /\ summaries' = <<>>
  /\ ar_pc' = "loop"
  /\ UNCHANGED notInsightV

\* an iteration that ends in "continue": load_batch_contents gave nothing, or
\* the analysis call raised
BatchContinue ==
  /\ ar_pc = "loop"
  /\ batch_num < total_batches
  /\ batch_num' = batch_num + 1
  /\ UNCHANGED <<total_batches, all_recommendations, accumulated_insights, summaries,
                 ar_pc>>
  /\ UNCHANGED notInsightV

\* an iteration whose analysis call returned: nothing, or recommendations
\* that the summary call then summarises, or fails to
AnalyzeBatch ==
  /\ ar_pc = "loop"
  /\ batch_num < total_batches
  /\ batch_num' = batch_num + 1
  /\ \E batch_recommendations \in BOOLEAN :
       IF batch_recommendations
         THEN /\ all_recommendations' = all_recommendations + 1
              /\ \/ \E text \in SummaryTexts :
                      LET new_insights == Strip(text)
                      IN /\ accumulated_insights' =
                              UpdateInsights(accumulated_insights, new_insights)
                         /\ summaries' = Append(summaries, new_insights)
                 \/ UNCHANGED <<accumulated_insights, summaries>>
         ELSE UNCHANGED <<all_recommendations, accumulated_insights, summaries>>
  /\ UNCHANGED <<total_batches, ar_pc>>
  /\ UNCHANGED notInsightV

\* the loop is over: the final summary is built from accumulated_insights
FinalSummary ==
  /\ ar_pc = "loop"
  /\ batch_num = total_batches
  /\ ar_pc' = "summary"
  /\ UNCHANGED <<total_batches, batch_num, all_recommendations, accumulated_insights,
                 summaries>>
  /\ UNCHANGED notInsightV

InsightInit == MainIdle /\ LibIdle

InsightNext ==
  \/ AnalyzeRepository
  \/ BatchContinue
  \/ AnalyzeBatch
  \/ FinalSummary

InsightSpec == InsightInit /\ [][InsightNext]_vars

TypeOK ==
  /\ pc \in {"start", "stage", "hooks", "run_hooks", "hooks_result", "update_diff",
             "verbose", "review", "api", "review_result", "generate", "choice",
             "auto_commit", "done"}
  /\ exit_code \in {-1, 0, 1}
  /\ (pc = "done") = (exit_code # -1)
  /\ attempt \in Attempts

(***************************************************************************)
(* Properties.                                                             *)
(***************************************************************************)
\* the line the user typed is "y" or "yes", ignoring case and surrounding blanks
SaidYes(in) ==
  /\ in.exc = "none"
  /\ Lower(Strip(in.text)) \in {<<"y">>, <<"y","e","s">>}

\* C1: interactive mode, review ending with STOP_COMMIT: a commit message is
\* generated and a commit issued only after "y"/"yes" (any case) at the
\* critical-issues prompt; every other typed answer, Enter included, ends the
\* run with exit code 0 before any message generation or commit.
C1_CriticalGate ==
  (~args.all /\ review_ok = 1 /\ EndsWith(Strip(review), STOP_COMMIT)) =>
    /\ (pc = "generate" /\ gen_calls = <<>>) => SaidYes(answer)
    /\ (gen_calls # <<>> \/ commits # <<>>) => "critical_context" \in prompts
    /\ ("critical" \in prompts /\ "choice" \notin prompts
          /\ answer.exc = "none" /\ ~SaidYes(answer)) =>
         /\ pc = "done"
         /\ exit_code = 0
         /\ gen_calls = <<>>
         /\ commits = <<>>

\* C1 witness: Enter alone at the critical-issues prompt cancelled the run
C1_Witness ==
  /\ ~args.all
  /\ EndsWith(Strip(review), STOP_COMMIT)
  /\ "critical" \in prompts
  /\ answer = Typed(<<>>)
  /\ pc = "done"
  /\ exit_code = 0
  /\ gen_calls = <<>>

\* C2: auto-commit mode, review ending with STOP_COMMIT or NOTICE: git commit
\* is issued only after "y"/"yes" at the proceed prompt; any other answer or a
\* keyboard interrupt there ends the run with exit code 1 and no commit;
\* handle_critical_issues_in_auto_mode returns (True, context) when the user
\* said yes and entered the context line, and (False, "") when it returns
\* otherwise.
C2_AutoGate ==
  (args.all /\ review_ok = 1
     /\ (EndsWith(Strip(review), STOP_COMMIT) \/ EndsWith(Strip(review), NOTICE))) =>
    /\ (pc = "generate" /\ gen_calls = <<>>) =>
         /\ SaidYes(answer)
         /\ context_line.exc = "none"
         /\ user_context = Strip(context_line.text)
    /\ (gen_calls # <<>> \/ commits # <<>>) => "auto_context" \in prompts
    /\ (prompts \cap {"auto_critical", "auto_notice"} # {}
          /\ answer.exc \in {"none", "KeyboardInterrupt"} /\ ~SaidYes(answer)) =>
         /\ pc = "done"
         /\ exit_code = 1
         /\ gen_calls = <<>>
         /\ commits = <<>>
    /\ ("auto_critical" \in prompts /\ answer # Unasked
          /\ "EOFError" \notin {answer.exc, context_line.exc}) =>
         IF SaidYes(answer) /\ context_line.exc = "none"
           THEN should_continue /\ user_context = Strip(context_line.text)
           ELSE ~should_continue /\ user_context = <<>>

\* C2 witness: the user said yes to the proceed prompt of a critical review in
\* auto-commit mode and the commit was issued
C2_Witness ==
  /\ args.all
  /\ EndsWith(Strip(review), STOP_COMMIT)
  /\ "auto_critical" \in prompts
  /\ should_continue
  /\ user_context # <<>>
  /\ Len(commits) = 1

\* C3: at the message prompt, "a" or Enter issues exactly one git commit with
\* the message shown and ends the loop; "c" ends the loop without a commit;
\* "r" issues no commit and calls generate_commit_message again, and every
\* call gets the same diff, review and user context.
C3_StepOK ==
  (pc = "choice" /\ answer'.exc = "none") =>
    /\ answer'.text \in {<<"a">>, <<>>} =>
         /\ Len(commits') = 1
         /\ commits'[1].message = message
         /\ pc' = "done"
    /\ answer'.text = <<"c">> =>
         /\ commits' = <<>>
         /\ pc' = "done"
         /\ outcome' = "cancelled"
    /\ answer'.text = <<"r">> =>
         /\ commits' = <<>>
         /\ pc' = "generate"
         /\ <<diff, review, user_context>>' = <<diff, review, user_context>>

C3_SameArguments ==
  \A i \in 1..Len(gen_calls) :
    /\ gen_calls[i].diff = gen_calls[1].diff
    /\ gen_calls[i].review_content = gen_calls[1].review_content
    /\ gen_calls[i].user_context = gen_calls[1].user_context

C3_MessageLoop == [](C3_SameArguments /\ Len(commits) <= 1) /\ [][C3_StepOK]_vars

\* C3 witness: after a regenerate the second message was accepted with Enter
C3_Witness ==
  /\ ~args.all
  /\ Len(gen_calls) = 2
  /\ answer = Typed(<<>>)
  /\ Len(commits) = 1
  /\ commits[1].message = message
  /\ pc = "done"

\* C4: a git commit comes after exactly one perform_code_review call, which
\* returned, and after at least one generate_commit_message call that
\* returned, in this order; the review is not repeated on regenerate; the
\* message committed is the one the most recent generate_commit_message call
\* returned.
C4_ReviewThenMessageThenCommit ==
  /\ review_calls <= 1
  /\ (pc = "generate" \/ gen_calls # <<>>) => (review_calls = 1 /\ review_ok = 1)
  /\ gen_ok <= Len(gen_calls)
  /\ commits # <<>> =>
       /\ Len(commits) = 1
       /\ review_calls = 1
       /\ review_ok = 1
       /\ gen_ok >= 1
       /\ gen_ok = Len(gen_calls)
       /\ commits[1].message = message

\* C4 witness: a commit after one review and two generated messages
C4_Witness ==
  /\ Len(commits) = 1
  /\ review_calls = 1
  /\ gen_ok = 2
  /\ answer = Typed(<<"a">>)

\* C5: call_anthropic_with_retry makes at most 4 attempts; an attempt after
\* the first follows a retryable failure; the waits before the 2nd, 3rd and
\* 4th attempt are 5, 10 and 60 seconds; the first successful attempt returns
\* and ends the call.
C5_RetrySchedule ==
  /\ api_attempts <= 4
  /\ pc = "api" =>
       /\ api_attempts = attempt
       /\ sleeps = SubSeq(<<5, 10, 60>>, 1, api_attempts)
       /\ api_attempts > 0 => (last_error # <<>> /\ is_retryable(last_error))
  /\ pc \in {"review_result", "choice", "auto_commit"} =>
       /\ api_attempts = attempt + 1
       /\ sleeps = SubSeq(<<5, 10, 60>>, 1, api_attempts - 1)
       /\ last_error = <<>>

\* C5 witness: the 4th attempt succeeded after waits of 5, 10 and 60 seconds
C5_Witness ==
  /\ pc = "review_result"
  /\ api_attempts = 4
  /\ sleeps = <<5, 10, 60>>

\* C6: call_anthropic_with_retry re-raises the exception of the failing
\* attempt, without sleeping, exactly when the error is not retryable or the
\* attempt is the 4th; main then exits with code 1 and no git commit.
C6_Reraise ==
  /\ raised # <<>> =>
       /\ raised = last_error
       /\ ~is_retryable(raised) \/ api_attempts = 4
       /\ Len(sleeps) = api_attempts - 1
       /\ pc = "done"
       /\ exit_code = 1
       /\ outcome = "error"
       /\ commits = <<>>
  /\ (pc = "api" /\ last_error # <<>>) =>
       /\ is_retryable(last_error)
       /\ api_attempts < 4
       /\ Len(sleeps) = api_attempts
       /\ raised = <<>>

\* C6 witness: a retryable error on the 4th attempt was re-raised
C6_Witness ==
  /\ raised # <<>>
  /\ is_retryable(raised)
  /\ api_attempts = 4
  /\ sleeps = <<5, 10, 60>>
  /\ exit_code = 1

\* the texts generate_commit_message can return
GeneratedMessages ==
  {Strip(AfterMarker(MessageMarker, t)) :
     t \in {u \in MessageResponses : HasMarker(MessageMarker, u)}}

\* C7 as stated: the decision loop has an edit option, so asking to edit
\* ("e") keeps the generated message for the user to change: it neither ends
\* the run nor throws the message away for a newly generated one.
C7_EditOption ==
  [][(pc = "choice" /\ answer' = Typed(<<"e">>)) => pc' \notin {"generate", "done"}]_vars

\* C7 amended: the user can accept, cancel or regenerate; there is no edit
\* option: "a"/Enter commits the generated message, "c" cancels, every other
\* line ("e" included) regenerates, and a committed message is always a text
\* that generate_commit_message returned.
C7_StepOK ==
  (pc = "choice" /\ answer'.exc = "none") =>
    \/ /\ Lower(answer'.text) \in {<<"a">>, <<>>}
       /\ commits' = <<[message |-> message, no_verify |-> commits'[1].no_verify,
                        hooks_run |-> commits'[1].hooks_run,
                        succeeded |-> commits'[1].succeeded]>>
       /\ pc' = "done"
    \/ /\ Lower(answer'.text) = <<"c">>
       /\ commits' = <<>>
       /\ pc' = "done"
    \/ /\ Lower(answer'.text) \notin {<<"a">>, <<>>, <<"c">>}
       /\ commits' = <<>>
       /\ pc' = "generate"
       /\ message' = message

C7_AcceptCancelRegenerate ==
  /\ [](\A i \in 1..Len(commits) : commits[i].message \in GeneratedMessages)
  /\ [][C7_StepOK]_vars

\* C7 witness: "e" at the message prompt started a regeneration
C7_Witness ==
  /\ pc = "generate"
  /\ choice = <<"e">>
  /\ answer = Typed(<<"e">>)
  /\ Len(gen_calls) = 1
  /\ commits = <<>>

C9_HooksNeverRun ==
  args.skip_pre_commit =>
    /\ hook_log = <<>>
    /\ n_check_hooks = 0
    /\ prompts \cap {"run_precommit", "native_hooks", "commit_anyway", "bypass_reason"} = {}
    /\ \A i \in 1..Len(commits) : commits[i].hooks_run = {}

\* what should_run_hooks returns when the user agrees to run pre-commit
AgreedDecision ==
  should_run_hooks([has_native_hooks |-> FALSE, has_precommit |-> TRUE,
                    native_hooks |-> {}, precommit_available |-> TRUE], <<"y">>)

\* C10: with --pre-commit and without --skip-pre-commit the hooks are run as
\* if the user had agreed, with no prompt about running them and without a
\* check_git_hooks call, and they are run before the review is requested.
C10_ForcedPreCommit ==
  (args.pre_commit /\ ~args.skip_pre_commit) =>
    /\ n_check_hooks = 0
    /\ prompts \cap {"run_precommit", "native_hooks"} = {}
    /\ (pc \notin {"start", "stage", "hooks", "done"} \/ review_calls > 0) =>
         /\ hook_decision.run_precommit = AgreedDecision.run_precommit
         /\ hook_decision.bypass_native = AgreedDecision.bypass_native
         /\ skip_git_hooks = AgreedDecision.bypass_native
    /\ pc \in {"hooks_result", "update_diff", "verbose", "review"} => Len(hook_log) >= 1
    /\ review_calls > 0 => Len(hook_log) >= 1
    /\ \A i \in 1..Len(gen_calls) :
         gen_calls[i].hook_bypass_reason \notin {Reason_ForcePreCommit, Reason_Running}

\* C10 witness: the hooks ran without a pre-commit configuration in the
\* repository, and the review was requested afterwards
C10_Witness ==
  /\ args.pre_commit
  /\ ~args.skip_pre_commit
  /\ ~repo.precommit_config
  /\ Len(hook_log) >= 1
  /\ review_ok = 1
  /\ prompts \cap {"run_precommit", "native_hooks"} = {}

\* C11: with --force-commit a failed hook run is followed by neither an exit
\* nor a prompt: the step that handles the failure sets the bypass reason to
\* "Used --force-commit flag" and goes on to the refreshed diff; the user is
\* never asked "commit anyway" or for a bypass reason, and the review and
\* every generate_commit_message call that follow carry that reason.
C11_StepOK ==
  (pc = "hooks_result" /\ ~hooks_passed /\ args.force_commit) =>
    /\ pc' = "update_diff"
    /\ exit_code' = exit_code
    /\ outcome' = "running"
    /\ prompts' = prompts
    /\ answer' = answer
    /\ hook_bypass_reason' = Reason_ForceCommit

C11_Forced ==
  (args.force_commit /\ hook_log # <<>> /\ ~hooks_passed) =>
    /\ prompts \cap {"commit_anyway", "bypass_reason"} = {}
    /\ (pc \notin {"hooks_result"}) => hook_bypass_reason = Reason_ForceCommit
    /\ review_calls > 0 => hook_bypass_reason = Reason_ForceCommit
    /\ \A i \in 1..Len(gen_calls) :
         gen_calls[i].hook_bypass_reason = Reason_ForceCommit

C11_ForceCommit == []C11_Forced /\ [][C11_StepOK]_vars

\* C11 witness: interactive run with --force-commit, the hooks failed, no
\* question about the failure was asked and a message was generated
C11_Witness ==
  /\ args.force_commit
  /\ ~args.all
  /\ hook_log = <<"fail">>
  /\ ~hooks_passed
  /\ prompts \cap {"commit_anyway", "bypass_reason"} = {}
  /\ review_ok = 1
  /\ Len(gen_calls) >= 1
  /\ gen_calls[1].hook_bypass_reason = Reason_ForceCommit

Elems(seq) == {seq[i] : i \in DOMAIN seq}

\* the paths listed as renamed, old and new
MovedPaths == UNION {{moved_files[i][1], moved_files[i][2]} : i \in DOMAIN moved_files}

InlinedIn(parts, file) ==
  \E k \in 1..(Len(parts) - 2) :
    /\ parts[k] = TextPart(<<"[","S","T","A","R","T"," ","O","F"," ","F","I","L","E"," ","'">>
                           \o file \o <<"'","]">>)
    /\ parts[k + 1].kind = "content"
    /\ parts[k + 1].file = file
    /\ parts[k + 2] = TextPart(<<"[","E","N","D"," ","O","F"," ","F","I","L","E"," ","'">>
                               \o file \o <<"'","]">>)

\* "+ file" comes after the heading "New files added (+):"
ListedAsNew(parts, file) ==
  \E j, k \in 1..Len(parts) :
    /\ j < k
    /\ parts[j] = TextPart(<<"N","e","w"," ","f","i","l","e","s"," ","a","d","d","e","d"," ","(","+",")",":">>)
    /\ parts[k] = TextPart(<<"+"," ">> \o file)

\* C13: once the new files are handled, every new file is listed under
\* "New files added (+):", and its content stands between "[START OF FILE
\* ...]" and "[END OF FILE ...]" exactly when os.path.getsize gave a size
\* below 8192 and the staged content is not empty; otherwise (size 8192 or
\* more, empty staged content, or OSError) no content of it is in the diff.
C13_Inlining ==
  fd_pc \in {"modified", "returned"} =>
    \A i \in 1..Len(new_files) :
      LET file == new_files[i]
          rd == file_reads[i]
      IN /\ rd.file = file
         /\ ListedAsNew(diff_parts, file)
         /\ InlinedIn(diff_parts, file) <=>
              /\ rd.got.exc = "none"
              /\ rd.got.size < 8192
              /\ rd.content.body + rd.content.tail > 0
         /\ ~InlinedIn(diff_parts, file) =>
              \A k \in 1..Len(diff_parts) :
                ~(diff_parts[k].kind = "content" /\ diff_parts[k].file = file)
         /\ fd_pc = "returned" => filtered_diff.parts = diff_parts

\* C13 witness: of two new files with the same staged content, the one of
\* 8192 bytes is listed only and the one of 8191 bytes is inlined
C13_Witness ==
  /\ fd_pc = "returned"
  /\ new_files = << <<"a">>, <<"b">> >>
  /\ file_reads[1].got = SizeOf(8192)
  /\ file_reads[2].got = SizeOf(8191)
  /\ file_reads[1].content = Blob(120, 1)
  /\ file_reads[2].content = Blob(120, 1)
  /\ ~InlinedIn(filtered_diff.parts, <<"a">>)
  /\ InlinedIn(filtered_diff.parts, <<"b">>)
  /\ ListedAsNew(filtered_diff.parts, <<"a">>)

RejectedLimits ==
  { <<"2","1">>, <<"-","1">>, <<"a","b","c">>, <<"3",".","5">>, <<>> }

\* C15: cam.historylimit, when set, reads as an integer in 0..20, at every
\* point of every sequence of set_history_limit and setup_api_key calls;
\* set_history_limit with a text that is not an integer, is negative or is
\* above 20 returned False and left the setting as it was; setup_api_key
\* with such a text typed at the history prompt stored 5.
C15_HistoryLimitRange ==
  /\ historylimit.set =>
       /\ ParseInt(historylimit.value).ok
       /\ ParseInt(historylimit.value).value \in 0..20
  /\ get_git_config_history_limit(historylimit) \in 0..20
  /\ config_call.op = "set_history_limit" =>
       IF config_call.input.text \in RejectedLimits
         THEN /\ ~config_call.returned
              /\ historylimit = config_call.before
         ELSE /\ config_call.returned
              /\ historylimit.set
  /\ ( /\ config_call.op = "setup_api_key"
       /\ config_call.input.exc = "none"
       /\ config_call.input.text \in RejectedLimits \ {<<>>} ) =>
       historylimit = Stored(<<"5">>)

\* C15 witness: with 20 stored, 21 was typed at the history prompt of
\* setup_api_key and 5 is stored now
C15_Witness ==
  /\ config_call.op = "setup_api_key"
  /\ config_call.input = Typed(<<"2","1">>)
  /\ config_call.before = Stored(<<"2","0">>)
  /\ historylimit = Stored(<<"5">>)

\* C16: when the configured history limit reads as 0, a prompt built by
\* perform_code_review or generate_commit_message was built without any
\* git log command, with an empty history context, and its text does not
\* contain "Git History Context".
C16_HistoryDisabled ==
  (sent_prompt.op # "none" /\ get_git_config_history_limit(historylimit) = 0) =>
    /\ git_log = <<>>
    /\ sent_prompt.history_context = <<>>
    /\ ~Contains(<<"G","i","t"," ","H","i","s","t","o","r","y"," ","C","o","n","t","e","x","t">>,
                 sent_prompt.text)

\* C16 witness: with 0 stored, the commit-message prompt was built in a
\* repository whose git log has commits for the staged file
C16_Witness ==
  /\ historylimit = Stored(<<"0">>)
  /\ sent_prompt.op = "generate_commit_message"
  /\ sent_prompt.env.staged_files = << <<"a">> >>
  /\ sent_prompt.env.recent.returncode = 0
  /\ sent_prompt.env.recent.stdout # <<>>
  /\ sent_prompt.env.file.stdout # <<>>
  /\ git_log = <<>>
  /\ sent_prompt.text # <<>>

RECURSIVE Flatten(_)
Flatten(seqs) == IF seqs = <<>> THEN <<>> ELSE Head(seqs) \o Flatten(Tail(seqs))

RECURSIVE BatchSum(_)
BatchSum(batch) == IF batch = <<>> THEN 0 ELSE Head(batch).size + BatchSum(Tail(batch))

\* the files of size 1..16384, in input order
EligibleFiles == SelectSeq(files, LAMBDA f : f[2] # 0 /\ f[2] <= 16384)

\* C17: the batches get_file_batch returns, laid end to end, are the input
\* files of size 1..16384 in input order, each once (so files of size 0 or
\* above 16384 are in no batch and every other file is in exactly one); no
\* batch is empty; the sizes in each batch add up to at most 50000.
C17_Batches ==
  fb_pc = "returned" =>
    /\ Len(Flatten(batches)) = Len(EligibleFiles)
    /\ \A k \in 1..Len(EligibleFiles) :
         /\ Flatten(batches)[k].path = EligibleFiles[k][1]
         /\ Flatten(batches)[k].size = EligibleFiles[k][2]
    /\ \A b \in 1..Len(batches) :
         /\ batches[b] # <<>>
         /\ BatchSum(batches[b]) <= 50000

\* C17 witness: three files of 16384 bytes fill the first batch, an empty
\* file between them is left out, and a file of 849 bytes opens the second
C17_Witness ==
  /\ fb_pc = "returned"
  /\ Len(files) = 5
  /\ files[3][2] = 0
  /\ Len(batches) = 2
  /\ Len(batches[1]) = 3
  /\ BatchSum(batches[1]) = 49152
  /\ batches[2] = <<[path |-> <<"f","5">>, size |-> 849, content |-> "None"]>>

\* the review with the whitespace around it removed ends with STOP_COMMIT
StopAtEnd(r) ==
  LET s == Strip(r)
  IN Len(s) >= 11 /\ SubSeq(s, Len(s) - 10, Len(s)) = STOP_COMMIT

\* C18: has_critical_issues(review) holds exactly when the stripped review
\* ends with STOP_COMMIT, and the run treats a review as critical exactly
\* then: the critical-issues question ("auto_critical" with --all,
\* "critical" without) is asked only for such a review, and no message is
\* generated for such a review without it; a review that mentions
\* STOP_COMMIT before its end gets the question of neither mode.
C18_StopCommitAtEnd ==
  /\ has_critical_issues(review) <=> StopAtEnd(review)
  /\ prompts \cap {"auto_critical", "critical"} # {} => StopAtEnd(review)
  /\ (gen_calls # <<>> /\ StopAtEnd(review)) =>
       (IF args.all THEN "auto_critical" ELSE "critical") \in prompts
  /\ (Contains(STOP_COMMIT, review) /\ ~StopAtEnd(review)) =>
       prompts \cap {"auto_critical", "critical"} = {}

\* C18 witness: an interactive run whose review mentions STOP_COMMIT and
\* ends with OK was asked the ordinary question and got a message
C18_Witness ==
  /\ ~args.all
  /\ Contains(STOP_COMMIT, review)
  /\ ~StopAtEnd(review)
  /\ "proceed" \in prompts
  /\ "critical" \notin prompts
  /\ gen_ok >= 1

\* the hook runs in the log of run_precommit_with_auto_restage
HookRuns == SelectSeq(hook_log, LAMBDA e : e \in {"pass", "fail"})

\* C19: once run_precommit_with_auto_restage was called, the hooks ran once
\* or twice; without --all (is_auto_mode false) or with a first run that
\* passed they ran exactly once and git add -A was not run; with --all and a
\* failed first run, git add -A ran once and then the hooks once more; the
\* value returned is the outcome of the last hook run.
C19_AutoRestage ==
  hook_log # <<>> =>
    /\ Len(HookRuns) \in {1, 2}
    /\ (~args.all \/ hook_log[1] = "pass") => hook_log \in {<<"pass">>, <<"fail">>}
    /\ (args.all /\ hook_log[1] = "fail") =>
         hook_log \in {<<"fail", "add", "pass">>, <<"fail", "add", "fail">>}
    /\ hooks_passed <=> (hook_log[Len(hook_log)] = "pass")
    /\ n_stage = (IF args.all THEN 1 ELSE 0) + (Len(hook_log) - Len(HookRuns))

\* C19 witness: with --all the first run failed, the files were staged
\* again and the second run passed
C19_Witness ==
  /\ args.all
  /\ hook_log = <<"fail", "add", "pass">>
  /\ hooks_passed
  /\ n_stage = 2
  /\ pc = "hooks_result"

\* C20: a git commit carries --no-verify only when git-cam ran the
\* pre-commit hooks and their last run failed; and when the hooks passed or
\* were not run, the commit-message prompt does not say that pre-commit
\* checks failed.
C20_NoVerifyOnlyAfterFailure ==
  /\ \A i \in 1..Len(commits) :
       commits[i].no_verify => (hook_log # <<>> /\ ~hooks_passed)
  /\ \A i \in 1..Len(gen_calls) :
       (hook_log = <<>> \/ hooks_passed) =>
         ~Contains(<<"p","r","e","-","c","o","m","m","i","t"," ","c","h","e","c","k","s"," ",
                     "f","a","i","l","e","d">>,
                   HookContext(gen_calls[i].skip_hooks, gen_calls[i].hook_bypass_reason))

\* the summaries that are not empty, oldest first
WrittenSummaries == SelectSeq(summaries, LAMBDA t : t # <<>>)

\* C21: after each batch, accumulated_insights is made of the whole
\* summaries of at most the three most recent summarised batches
C21_LastThreeSummaries ==
  ar_pc # "idle" =>
    \E k \in 0..3 :
      accumulated_insights = JoinWith(LastN(WrittenSummaries, k), BlankLine)

\* the answers that count as yes at "Do you want to commit anyway? (y/N)"
SaysCommitAnyway(in) ==
  in.exc = "none" /\ Lower(Strip(in.text)) \in { <<"y">>, <<"y","e","s">> }

\* the step taken when the hooks failed in interactive mode without
\* --force-commit
C22_StepOK ==
  (pc = "hooks_result" /\ ~hooks_passed /\ ~args.force_commit /\ ~args.all) =>
    /\ "commit_anyway" \in prompts'
    /\ review_calls' = 0 /\ gen_calls' = <<>> /\ commits' = <<>>
    /\ (answer'.exc = "none" /\ ~SaysCommitAnyway(answer')) =>
         /\ pc' = "done"
         /\ exit_code' = 1
         /\ "bypass_reason" \notin prompts'
    /\ SaysCommitAnyway(answer') =>
         /\ "bypass_reason" \in prompts'
         /\ context_line'.exc = "none" =>
              /\ pc' = "update_diff"
              /\ exit_code' = -1
              /\ hook_bypass_reason' = Strip(context_line'.text)

\* a run that ended at the "commit anyway" prompt made no LLM call and no
\* commit; a run that went on passes the entered reason to every
\* generate_commit_message call
C22_AfterAsking ==
  "commit_anyway" \in prompts =>
    /\ ~args.all /\ ~args.force_commit /\ ~hooks_passed
    /\ "bypass_reason" \notin prompts =>
         /\ pc = "done" /\ exit_code = 1
         /\ review_calls = 0 /\ gen_calls = <<>> /\ commits = <<>>
    /\ \A i \in 1..Len(gen_calls) :
         gen_calls[i].hook_bypass_reason = hook_bypass_reason

\* C22: interactive mode without --force-commit, hooks failed: the user is
\* asked whether to commit anyway; an answer that is not y or yes (white space
\* and case aside) ends the run with exit code 1 before any LLM call or
\* commit, and y or yes continues with the bypass reason the user then enters
C22_HookFailureAsk == []C22_AfterAsking /\ [][C22_StepOK]_vars

\* the user said yes, gave a reason, and the commit message was asked for
\* with that reason
C22_Witness ==
  /\ "bypass_reason" \in prompts
  /\ hook_bypass_reason = <<"h","o","t","f","i","x">>
  /\ Len(gen_calls) > 0
  /\ gen_calls[1].hook_bypass_reason = <<"h","o","t","f","i","x">>

\* -a, no --skip-pre-commit, a pre-commit configuration and the pre-commit
\* command
AutoWithPreCommit ==
  args.all /\ ~args.skip_pre_commit /\ repo.precommit_config /\ repo.precommit_cmd

\* the hook phase of such a run asks nothing and its commit skips git's hooks
C23_NeverAsked ==
  AutoWithPreCommit =>
    /\ Len(HookRuns) <= 2
    /\ Len(hook_log) - Len(HookRuns) <= 1
    /\ Len(HookRuns) = 2 => hook_log[1] = "fail" /\ hook_log[2] = "add"
    /\ prompts \cap {"run_precommit", "native_hooks", "commit_anyway", "bypass_reason"} = {}
    /\ pc \in {"update_diff", "verbose", "review"} => hook_log # <<>>
    /\ review_calls > 0 => hook_log # <<>>
    /\ \A i \in 1..Len(commits) : commits[i].no_verify /\ commits[i].hooks_run = {}

\* whatever the last hook run gave, the next step goes on to the updated diff
C23_StepOK ==
  (AutoWithPreCommit /\ pc = "hooks_result") =>
    /\ pc' = "update_diff"
    /\ exit_code' = -1
    /\ outcome' = "running"
    /\ prompts' = prompts
    /\ hook_log' = hook_log

\* C23: auto-commit mode with a pre-commit configuration and the pre-commit
\* command: the hooks run at most twice, with one re-staging in between, and a
\* failure, of the first run or of the second, neither ends the run nor makes
\* it ask the user: it goes on to the review, and its commit carries
\* --no-verify
C23_AutoNeverBlocked == []C23_NeverAsked /\ [][C23_StepOK]_vars

\* both hook runs failed and the run committed
C23_Witness ==
  /\ AutoWithPreCommit
  /\ ~args.force_commit
  /\ hook_log = <<"fail", "add", "fail">>
  /\ review_calls > 0
  /\ outcome = "committed"

\* a call makes at most four attempts, the hooks run at most twice, and a
\* run that ended is committed, cancelled or failed, with exit code 0 or 1
C24_Bounded ==
  /\ api_attempts <= 4
  /\ pc = "api" => attempt <= 3 /\ api_attempts = attempt
  /\ Len(HookRuns) <= 2
  /\ pc = "done" <=> outcome \in {"committed", "cancelled", "error"}
  /\ pc = "done" <=> exit_code \in {0, 1}
  /\ outcome = "committed" => exit_code = 0 /\ Len(commits) = 1

\* the fourth attempt ends the call: it returns or raises, so the loop never
\* runs out and the raise after it is not reached
C24_FourthAttemptEnds ==
  (pc = "api" /\ api_attempts = 3) => pc' # "api"

\* C24: every run terminates: call_anthropic_with_retry returns or raises
\* within 4 attempts, the hook phase runs the hooks at most twice, and, when
\* every prompt is answered and the user leaves the message loop, main ends
\* committed, cancelled or with an error exit
C24_Terminates ==
  /\ []C24_Bounded
  /\ [][C24_FourthAttemptEnds]_vars
  /\ <>(pc = "done")

\* a run that ended when the fourth attempt of a call raised, after two hook
\* runs
C24_Witness ==
  /\ pc = "done"
  /\ outcome = "error"
  /\ api_attempts = 4
  /\ raised # <<>>
  /\ Len(HookRuns) = 2

====
